---------------------------- MODULE Spec2Model ----------------------------
(***************************************************************************)
(* A model of swapem: the directive template (SwapDirectiveTemplate), the  *)
(* data tree resolver (getValue) and the chunk-resumable substitution      *)
(* engine (SwapTransform).                                                 *)
(*                                                                         *)
(* A JavaScript string is modelled as a sequence of one-character strings, *)
(* so "<!" is <<"<", "!">>.  The fixed parts of an error message are kept  *)
(* as single elements of the message sequence; the interpolated parts are  *)
(* spliced in character by character.                                      *)
(***************************************************************************)
EXTENDS Integers, Sequences, FiniteSets, TLC

VARIABLES
    template,    \* SwapTransform #context.template
    swapData,    \* SwapTransform #context.swapData
    text,        \* the whole text the readable side will deliver
    pos,         \* number of characters of text already handed to _transform
    nextState,   \* SwapTransform #nextState
    context,     \* SwapTransform #context: input, output, stateBuffer, nextIndex
    emitted,     \* concatenation of everything given to this.push
    status,      \* "open", "errored" (callback(error)) or "ended" (source ended)
    error,       \* the error given to the transform callback
    rpath,       \* resolver harness: valuePath handed to getValue
    rsep,        \* resolver harness: separator handed to getValue
    rresult,     \* resolver harness: what getValue returned or threw
    pc,          \* _transform seen step by step: "idle" between two calls, "loop" inside one
    units,       \* _transform seen step by step: the strings given to this.push, in order
    chunks,      \* _transform seen step by step: the chunks received, in order
    tstring,     \* template harness: string handed to fromString
    tresult,     \* template harness: what fromString returned or threw
    streams,     \* several SwapTransform instances that share template and swapData
    writable,           \* TemporaryFileWritable: where the stream stands
    temporaryWritable,  \* TemporaryFileWritable #temporaryWritable
    temporaryFile,      \* content of the file at #temporaryPath
    destinationFile,    \* content of the file at #destinationPath
    copy                \* the copyFile that _final starts

engineVars == <<template, swapData, text, pos, nextState, context, emitted,
                status, error>>

resolverVars == <<rpath, rsep, rresult>>

stepVars == <<pc, units, chunks>>

parserVars == <<tstring, tresult>>

fileVars == <<writable, temporaryWritable, temporaryFile, destinationFile, copy>>

vars == <<engineVars, resolverVars, stepVars, parserVars, streams, fileVars>>

-----------------------------------------------------------------------------
(* Strings *)

\* The characters /\s/ and String.prototype.trim treat as whitespace: tab,
\* line feed, vertical tab, form feed, carriage return, space, no-break
\* space, the byte order mark, the line and paragraph separators and the
\* Unicode space separators.  A character a string of this language cannot
\* hold stands as its JavaScript escape.
Whitespace ==
    { " ", "\t", "\n", "\r", "\f", "\\v", "\\u00A0", "\\uFEFF",
      "\\u1680", "\\u2000", "\\u2001", "\\u2002", "\\u2003", "\\u2004",
      "\\u2005", "\\u2006", "\\u2007", "\\u2008", "\\u2009", "\\u200A",
      "\\u2028", "\\u2029", "\\u202F", "\\u205F", "\\u3000" }

IsWhitespace(c) == c \in Whitespace

\* s.slice(0, -n): s without its last n characters, and the empty string for
\* n = 0, where -n is 0.
SliceOffEnd(s, n) ==
    IF n = 0 THEN <<>> ELSE SubSeq(s, 1, Len(s) - n)

\* String.prototype.trimStart: the string from its first character that is
\* no whitespace on (the string itself when it starts with none).
TrimStart(s) ==
    IF s = <<>> \/ ~IsWhitespace(s[1]) THEN s
    ELSE LET first == CHOOSE k \in 1..(Len(s) + 1) :
                          /\ (k = Len(s) + 1 \/ ~IsWhitespace(s[k]))
                          /\ \A m \in 1..(k - 1) : IsWhitespace(s[m])
         IN  SubSeq(s, first, Len(s))

\* String.prototype.trimEnd: the string without the whitespace it ends with
\* (the string itself when it ends with none).
TrimEnd(s) ==
    IF s = <<>> \/ ~IsWhitespace(s[Len(s)]) THEN s
    ELSE LET trailing == CHOOSE j \in 0..Len(s) :
                             /\ (j = Len(s) \/ ~IsWhitespace(s[Len(s) - j]))
                             /\ \A m \in (Len(s) - j + 1)..Len(s) : IsWhitespace(s[m])
         IN  SubSeq(s, 1, Len(s) - trailing)

\* String.prototype.trim
Trim(s) == TrimEnd(TrimStart(s))

\* String.prototype.endsWith
EndsWith(s, suffix) ==
    /\ Len(suffix) <= Len(s)
    /\ SubSeq(s, Len(s) - Len(suffix) + 1, Len(s)) = suffix

\* Whether token occurs in s starting at the 1-based index i.
MatchesAt(s, token, i) ==
    /\ i >= 1
    /\ i + Len(token) - 1 <= Len(s)
    /\ SubSeq(s, i, i + Len(token) - 1) = token

\* The least index from i on where token occurs in s (0 if there is none).
FirstMatchFrom(s, token, i) ==
    LET found == { k \in i..Len(s) : MatchesAt(s, token, k) }
    IN  IF found = {} THEN 0 ELSE CHOOSE k \in found : \A m \in found : k <= m

\* String.prototype.split with a string separator: the occurrences of the
\* separator are taken leftmost first and do not overlap; an empty separator
\* splits between every two characters, and the empty string into nothing.
RECURSIVE SplitFrom(_, _, _)
SplitFrom(s, separator, i) ==
    LET next == FirstMatchFrom(s, separator, i) IN
    IF separator = <<>> THEN [k \in 1..(Len(s) - i + 1) |-> <<s[i + k - 1]>>]
    ELSE IF next = 0 THEN <<SubSeq(s, i, Len(s))>>
    ELSE <<SubSeq(s, i, next - 1)>> \o SplitFrom(s, separator, next + Len(separator))

\* A split that takes the separator to be its first character only.
SplitOnFirstCharacter(s, separator) ==
    SplitFrom(s, IF separator = <<>> THEN <<>> ELSE <<Head(separator)>>, 1)

Split(s, separator) == SplitFrom(s, separator, 1)

\* A split on /\s/: every single whitespace character separates.
RECURSIVE SplitEachWhitespaceFrom(_, _, _)
SplitEachWhitespaceFrom(s, i, current) ==
    IF i > Len(s) THEN <<current>>
    ELSE IF IsWhitespace(s[i])
         THEN <<current>> \o SplitEachWhitespaceFrom(s, i + 1, <<>>)
         ELSE SplitEachWhitespaceFrom(s, i + 1, Append(current, s[i]))

SplitOnEachWhitespace(s) == SplitEachWhitespaceFrom(s, 1, <<>>)

\* String.prototype.split(/\s+/): every maximal run of whitespace separates.
RECURSIVE SplitWhitespaceFrom(_, _, _)
SplitWhitespaceFrom(s, i, current) ==
    IF i > Len(s) THEN <<current>>
    ELSE IF IsWhitespace(s[i])
         THEN IF i > 1 /\ IsWhitespace(s[i - 1])
              THEN SplitWhitespaceFrom(s, i + 1, current)
              ELSE <<current>> \o SplitWhitespaceFrom(s, i + 1, <<>>)
         ELSE SplitWhitespaceFrom(s, i + 1, Append(current, s[i]))

SplitWhitespace(s) == SplitWhitespaceFrom(s, 1, <<>>)

-----------------------------------------------------------------------------
(* Errors *)

NoError == [name |-> "", message |-> <<>>]

TooManyTokensMessage(string) ==
    <<"Invalid directive template \"">> \o string \o <<"\" has too many tokens.">>

TooFewTokensMessage(string) ==
    <<"Invalid directive template \"">> \o string \o <<"\" has too few tokens.">>

\* The message of the TypeError that the accessors "arguments" and "caller"
\* of Function.prototype throw.
RestrictedMessage ==
    <<"'caller', 'callee', and 'arguments' properties may not be accessed on strict mode functions or the arguments objects for calls to them">>

IndexIntoLeafMessage(valuePath) ==
    <<"Tried to index into a leaf value in path \"">> \o valuePath \o <<"\"">>

UnknownKeyMessage(segment, valuePath) ==
    <<"Tried to index with a non-existent key \"">> \o segment
        \o <<"\" in path \"">> \o valuePath \o <<"\"">>

NotALeafMessage(valuePath) ==
    <<"Value path \"">> \o valuePath \o <<"\" didn't reach a leaf value">>

DirectiveTooLongMessage ==
    <<"Swap directive path is too long (over 1024 characters!). The directive end token is likely missing.">>

-----------------------------------------------------------------------------
(* SwapDirectiveTemplate *)

NoTemplate == [start |-> <<>>, separator |-> <<>>, end |-> <<>>]

\* new SwapDirectiveTemplate(start, separator, end)
SwapDirectiveTemplate(start, separator, end) ==
    [start |-> start, separator |-> separator, end |-> end]

\* A fromString that splits the string without trimming it.
fromStringWithoutTrim(string) ==
    LET tokens == SplitWhitespace(string) IN
    IF Len(tokens) > 3
    THEN [ok |-> FALSE, template |-> NoTemplate,
          error |-> [name |-> "Error", message |-> TooManyTokensMessage(string)]]
    ELSE IF Len(tokens) < 3
    THEN [ok |-> FALSE, template |-> NoTemplate,
          error |-> [name |-> "Error", message |-> TooFewTokensMessage(string)]]
    ELSE [ok |-> TRUE,
          template |-> SwapDirectiveTemplate(tokens[1], tokens[2], tokens[3]),
          error |-> NoError]

\* A fromString whose messages quote the trimmed string.
fromStringQuotesTrimmed(string) ==
    LET tokens == SplitWhitespace(Trim(string)) IN
    IF Len(tokens) > 3
    THEN [ok |-> FALSE, template |-> NoTemplate,
          error |-> [name |-> "Error", message |-> TooManyTokensMessage(Trim(string))]]
    ELSE IF Len(tokens) < 3
    THEN [ok |-> FALSE, template |-> NoTemplate,
          error |-> [name |-> "Error", message |-> TooFewTokensMessage(Trim(string))]]
    ELSE [ok |-> TRUE,
          template |-> SwapDirectiveTemplate(tokens[1], tokens[2], tokens[3]),
          error |-> NoError]

\* SwapDirectiveTemplate.fromString: the destructuring leaves separator and
\* end undefined when the split yields fewer than three tokens; the check
\* for too many tokens comes first.
fromString(string) ==
    LET tokens == SplitWhitespace(Trim(string)) IN
    IF Len(tokens) > 3
    THEN [ok |-> FALSE, template |-> NoTemplate,
          error |-> [name |-> "Error", message |-> TooManyTokensMessage(string)]]
    ELSE IF Len(tokens) < 3
    THEN [ok |-> FALSE, template |-> NoTemplate,
          error |-> [name |-> "Error", message |-> TooFewTokensMessage(string)]]
    ELSE [ok |-> TRUE,
          template |-> SwapDirectiveTemplate(tokens[1], tokens[2], tokens[3]),
          error |-> NoError]

-----------------------------------------------------------------------------
(* Swap data (DataNode) *)

EmptyMap == [key \in {} |-> <<>>]

\* A leaf node: a string.
Leaf(v) == [type |-> "string", value |-> v, own |-> EmptyMap]

\* A mapping node: a plain object with the given own properties.
Mapping(own) == [type |-> "object", value |-> <<>>, own |-> own]

\* What an index expression yields for a property that is nowhere on the
\* prototype chain.
Undefined == [type |-> "undefined", value |-> <<>>, own |-> EmptyMap]

\* The end of every prototype chain.
Null == [type |-> "null", value |-> <<>>, own |-> EmptyMap]

\* A number, by the string it converts to.
Number(v) == [type |-> "number", value |-> v, own |-> EmptyMap]

ValueOfKey == <<"v", "a", "l", "u", "e", "O", "f">>

NameKey == <<"n", "a", "m", "e">>

LengthKey == <<"l", "e", "n", "g", "t", "h">>

\* The string a sequence of characters spells, and back: the built-in
\* properties are looked up under their names.
RECURSIVE Word(_)
Word(characters) ==
    IF characters = <<>> THEN ""
    ELSE IF Len(characters) = 1 THEN characters[1]
    ELSE LET half == Len(characters) \div 2 IN
         Word(SubSeq(characters, 1, half))
             \o Word(SubSeq(characters, half + 1, Len(characters)))

Characters(word) == [i \in 1..Len(word) |-> SubSeq(word, i, i)]

\* A built-in function object: its own properties are "length" and "name".
Function(name, length) ==
    [type |-> "function", value |-> name,
     own |-> (LengthKey :> Number(<<length>>)) @@ (NameKey :> Leaf(name))]

\* Object.prototype, Function.prototype and Number.prototype.
Prototype(of) == [type |-> "prototype", value |-> of, own |-> EmptyMap]

ObjectPrototype == Prototype("Object")

FunctionPrototype == Prototype("Function")

NumberPrototype == Prototype("Number")

\* Object.prototype.valueOf.
ValueOfFunction == Function(ValueOfKey, "0")

\* The functions that are own properties of the three prototypes and of
\* the constructors Object, Function and Number, each with its length, as
\* Node 20 has them (the version of the repository's @types/node).
Methods ==
       ("Object.prototype" :>
           [__defineGetter__ |-> "2", __defineSetter__ |-> "2",
            hasOwnProperty |-> "1", __lookupGetter__ |-> "1",
            __lookupSetter__ |-> "1", isPrototypeOf |-> "1",
            propertyIsEnumerable |-> "1", toString |-> "0", valueOf |-> "0",
            toLocaleString |-> "0"])
    @@ ("Function.prototype" :>
           [apply |-> "2", bind |-> "1", call |-> "1", toString |-> "0"])
    @@ ("Number.prototype" :>
           [toExponential |-> "1", toFixed |-> "1", toPrecision |-> "1",
            toString |-> "1", valueOf |-> "0", toLocaleString |-> "0"])
    @@ ("Object" :>
           [assign |-> "2", getOwnPropertyDescriptor |-> "2",
            getOwnPropertyDescriptors |-> "1", getOwnPropertyNames |-> "1",
            getOwnPropertySymbols |-> "1", hasOwn |-> "2", is |-> "2",
            preventExtensions |-> "1", seal |-> "1", create |-> "2",
            defineProperties |-> "2", defineProperty |-> "3", freeze |-> "1",
            getPrototypeOf |-> "1", setPrototypeOf |-> "2",
            isExtensible |-> "1", isFrozen |-> "1", isSealed |-> "1",
            keys |-> "1", entries |-> "1", fromEntries |-> "1",
            values |-> "1"])
    @@ ("Function" :> EmptyMap)
    @@ ("Number" :>
           [isFinite |-> "1", isInteger |-> "1", isNaN |-> "1",
            isSafeInteger |-> "1", parseFloat |-> "1", parseInt |-> "2"])

\* The numbers that are own properties of Number, as strings.
NumberConstants ==
    [MAX_SAFE_INTEGER |-> "9007199254740991",
     MIN_SAFE_INTEGER |-> "-9007199254740991",
     MAX_VALUE |-> "1.7976931348623157e+308",
     MIN_VALUE |-> "5e-324",
     EPSILON |-> "2.220446049250313e-16",
     NaN |-> "NaN",
     POSITIVE_INFINITY |-> "Infinity",
     NEGATIVE_INFINITY |-> "-Infinity"]

\* What reading a property through an accessor of a prototype gives:
\* "__proto__" the prototype of the value indexed, "arguments" and "caller"
\* a TypeError.
Accessor(key) == [type |-> "accessor", value |-> key, own |-> EmptyMap]

\* A read that threw.
Restricted == [type |-> "throws", value |-> <<>>, own |-> EmptyMap]

\* The own property a built-in has beside its functions.
OtherProperty(holder, home, key) ==
    IF holder.type = "function"
    THEN IF key = "prototype" THEN Prototype(home)
         ELSE IF home = "Number" /\ key \in DOMAIN NumberConstants
         THEN Number(Characters(NumberConstants[key]))
         ELSE Undefined
    ELSE IF key = "constructor" THEN Function(Characters(holder.value), "1")
    ELSE IF holder = ObjectPrototype
    THEN IF key = "__proto__" THEN Accessor(key) ELSE Undefined
    ELSE IF holder = FunctionPrototype
    THEN IF key = "length" THEN Number(<<"0">>)
         ELSE IF key = "name" THEN Leaf(<<>>)
         ELSE IF key \in {"arguments", "caller"} THEN Accessor(key)
         ELSE Undefined
    ELSE Undefined

\* The own property of a built-in, whose functions are the given methods.
BuiltInProperty(holder, home, methods, key) ==
    IF home \notin DOMAIN methods THEN Undefined
    ELSE IF key \in DOMAIN methods[home]
    THEN Function(Characters(key), methods[home][key])
    ELSE OtherProperty(holder, home, key)

\* The own property of holder under key (undefined if there is none).
OwnProperty(holder, key) ==
    IF key \in DOMAIN holder.own THEN holder.own[key]
    ELSE IF holder.type = "prototype"
    THEN BuiltInProperty(holder, holder.value \o ".prototype", Methods, Word(key))
    ELSE IF holder.type = "function"
    THEN BuiltInProperty(holder, Word(holder.value), Methods, Word(key))
    ELSE Undefined

\* The object a value inherits from.
PrototypeOf(value) ==
    IF value.type = "object" THEN ObjectPrototype
    ELSE IF value.type = "function" THEN FunctionPrototype
    ELSE IF value.type = "number" THEN NumberPrototype
    ELSE IF value.type = "prototype" /\ value # ObjectPrototype
    THEN ObjectPrototype
    ELSE Null

\* own if it is a property, else the property found first on the prototype
\* chain from holder on.
RECURSIVE LookUp(_, _, _)
LookUp(own, holder, key) ==
    IF own # Undefined THEN own
    ELSE IF holder = Null THEN Undefined
    ELSE LookUp(OwnProperty(holder, key), PrototypeOf(holder), key)

\* value[segment] where value is not a string: an own property, else an
\* inherited one, else undefined; an accessor is called with value.
Accessed(found, value) ==
    IF found.type # "accessor" THEN found
    ELSE IF found.value = "__proto__" THEN PrototypeOf(value)
    ELSE Restricted

GetProperty(value, segment) ==
    Accessed(LookUp(Undefined, value, segment), value)

-----------------------------------------------------------------------------
(* getValue *)

Returned(v) == [ok |-> TRUE, value |-> v, error |-> NoError]

\* The resolver harness before getValue has been called.
NotCalled == [ok |-> FALSE, value |-> <<>>, error |-> NoError]

Thrown(name, message) ==
    [ok |-> FALSE, value |-> <<>>, error |-> [name |-> name, message |-> message]]

\* The body of the for loop over valuePath.split(separator), from segment i
\* on, followed by the leaf check after the loop.
RECURSIVE getValueFrom(_, _, _, _)
\* getValue without the leaf check that follows the loop.
getValueFromNoLeafCheck(value, segments, i, valuePath) ==
    IF i > Len(segments)
    THEN Returned(value.value)
    ELSE IF value.type = "string"
         THEN Thrown("TypeError", IndexIntoLeafMessage(valuePath))
         ELSE LET newValue == GetProperty(value, segments[i]) IN
              IF newValue.type = "throws"
              THEN Thrown("TypeError", RestrictedMessage)
              ELSE IF newValue.type \in {"undefined", "null"}
              THEN Thrown("TypeError", UnknownKeyMessage(segments[i], valuePath))
              ELSE getValueFrom(newValue, segments, i + 1, valuePath)

getValueFrom(value, segments, i, valuePath) ==
    IF i > Len(segments)
    THEN IF value.type # "string"
         THEN Thrown("TypeError", NotALeafMessage(valuePath))
         ELSE Returned(value.value)
    ELSE IF value.type = "string"
         THEN Thrown("TypeError", IndexIntoLeafMessage(valuePath))
         ELSE LET newValue == GetProperty(value, segments[i]) IN
              IF newValue.type = "throws"
              THEN Thrown("TypeError", RestrictedMessage)
              ELSE IF newValue.type \in {"undefined", "null"}
              THEN Thrown("TypeError", UnknownKeyMessage(segments[i], valuePath))
              ELSE getValueFrom(newValue, segments, i + 1, valuePath)

getValue(data, valuePath, separator) ==
    getValueFrom(data, Split(valuePath, separator), 1, valuePath)

-----------------------------------------------------------------------------
(* State functions *)

\* The hard limit of inDirectiveState on the length of stateBuffer.
MaxDirectiveLength == 1024

\* input[index] for a 0-based index; undefined beyond the end of the chunk.
HasChar(input, index) == index < Len(input)

CharAt(input, index) == input[index + 1]

Continue(state, ctx) == [state |-> state, context |-> ctx, error |-> NoError]

Throw(ctx, err) == [state |-> "", context |-> ctx, error |-> err]

\* whitespaceConsumerState, as created by consumeWhitespaceAndThen(nextState).
RECURSIVE whitespaceConsumerState(_, _)
\* A whitespaceConsumerState that takes the character it looked at.
whitespaceConsumerStateEatsLookahead(ctx, nextStateAfter) ==
    IF HasChar(ctx.input, ctx.nextIndex)
    THEN IF IsWhitespace(CharAt(ctx.input, ctx.nextIndex))
         THEN whitespaceConsumerState(
                  [ctx EXCEPT !.nextIndex = @ + 1], nextStateAfter)
         ELSE Continue(nextStateAfter, [ctx EXCEPT !.nextIndex = @ + 1])
    ELSE Continue("whitespaceConsumerState", ctx)

\* A whitespaceConsumerState that stays where it is at a character that is
\* not whitespace.
whitespaceConsumerStateStalls(ctx, nextStateAfter) ==
    IF HasChar(ctx.input, ctx.nextIndex)
    THEN IF IsWhitespace(CharAt(ctx.input, ctx.nextIndex))
         THEN whitespaceConsumerState(
                  [ctx EXCEPT !.nextIndex = @ + 1], nextStateAfter)
         ELSE Continue("whitespaceConsumerState", ctx)
    ELSE Continue("whitespaceConsumerState", ctx)

whitespaceConsumerState(ctx, nextStateAfter) ==
    IF HasChar(ctx.input, ctx.nextIndex)
    THEN IF IsWhitespace(CharAt(ctx.input, ctx.nextIndex))
         THEN whitespaceConsumerState(
                  [ctx EXCEPT !.nextIndex = @ + 1], nextStateAfter)
         ELSE Continue(nextStateAfter, ctx)
    ELSE Continue("whitespaceConsumerState", ctx)

RECURSIVE lookingForDirectiveState(_, _)
\* A lookingForDirectiveState that forgets the matched characters when the
\* match breaks.
lookingForDirectiveStateDropsBuffer(ctx, tpl) ==
    IF Len(ctx.stateBuffer) < Len(tpl.start)
    THEN LET read == [ctx EXCEPT !.nextIndex = @ + 1] IN
         IF ~HasChar(ctx.input, ctx.nextIndex)
         THEN Continue("lookingForDirectiveState", read)
         ELSE LET last == CharAt(ctx.input, ctx.nextIndex) IN
              IF last = tpl.start[Len(ctx.stateBuffer) + 1]
              THEN lookingForDirectiveState(
                       [read EXCEPT !.stateBuffer = Append(@, last)], tpl)
              ELSE lookingForDirectiveState(
                       [read EXCEPT !.output = @ \o <<last>>,
                                    !.stateBuffer = <<>>], tpl)
    ELSE Continue("whitespaceConsumerState", ctx)

\* lookingForDirectiveState: the index is advanced by the read even when the
\* read finds the chunk exhausted.
lookingForDirectiveState(ctx, tpl) ==
    IF Len(ctx.stateBuffer) < Len(tpl.start)
    THEN LET read == [ctx EXCEPT !.nextIndex = @ + 1] IN
         IF ~HasChar(ctx.input, ctx.nextIndex)
         THEN Continue("lookingForDirectiveState", read)
         ELSE LET last == CharAt(ctx.input, ctx.nextIndex) IN
              IF last = tpl.start[Len(ctx.stateBuffer) + 1]
              THEN lookingForDirectiveState(
                       [read EXCEPT !.stateBuffer = Append(@, last)], tpl)
              ELSE lookingForDirectiveState(
                       [read EXCEPT !.output = @ \o ctx.stateBuffer \o <<last>>,
                                    !.stateBuffer = <<>>], tpl)
    ELSE Continue("whitespaceConsumerState", ctx)

\* A resolution that, when the path does not resolve, drops the directive
\* and goes on looking for the next one.
ResolveDirectiveSkipsFailure(ctx, data, tpl) ==
    LET path == Trim(SliceOffEnd(ctx.stateBuffer, Len(tpl.end)))
        got == getValue(data, path, tpl.separator)
    IN  IF got.ok
        THEN Continue("lookingForDirectiveState",
                      [ctx EXCEPT !.output = @ \o got.value])
        ELSE Continue("lookingForDirectiveState", ctx)

\* A resolution that removes the whitespace before the path only.
ResolveDirectiveKeepsTrailing(ctx, data, tpl) ==
    LET path == TrimStart(SubSeq(ctx.stateBuffer, 1,
                                 Len(ctx.stateBuffer) - Len(tpl.end)))
        got == getValue(data, path, tpl.separator)
    IN  IF got.ok
        THEN Continue("lookingForDirectiveState",
                      [ctx EXCEPT !.output = @ \o got.value])
        ELSE Throw(ctx, got.error)

\* A resolution that hands the value back to the scanner, in front of the
\* rest of the chunk, instead of adding it to the output.
ResolveDirectiveRescans(ctx, data, tpl) ==
    LET path == Trim(SliceOffEnd(ctx.stateBuffer, Len(tpl.end)))
        got == getValue(data, path, tpl.separator)
    IN  IF got.ok
        THEN Continue("lookingForDirectiveState",
                      [ctx EXCEPT !.input = got.value
                                      \o SubSeq(@, ctx.nextIndex + 1, Len(@)),
                                  !.nextIndex = 0])
        ELSE Throw(ctx, got.error)

\* The end of inDirectiveState, once stateBuffer ends with the end token.
ResolveDirective(ctx, data, tpl) ==
    LET path == Trim(SliceOffEnd(ctx.stateBuffer, Len(tpl.end)))
        got == getValue(data, path, tpl.separator)
    IN  IF got.ok
        THEN Continue("lookingForDirectiveState",
                      [ctx EXCEPT !.output = @ \o got.value])
        ELSE Throw(ctx, got.error)

\* The while loop of inDirectiveState.
RECURSIVE inDirectiveLoop(_, _, _)
\* The loop with the limit tested by >= instead of >.
inDirectiveLoopLimitOffByOne(ctx, data, tpl) ==
    IF ~EndsWith(ctx.stateBuffer, tpl.end)
    THEN IF Len(ctx.stateBuffer) >= MaxDirectiveLength
         THEN Throw(ctx, [name |-> "Error", message |-> DirectiveTooLongMessage])
         ELSE LET read == [ctx EXCEPT !.nextIndex = @ + 1] IN
              IF ~HasChar(ctx.input, ctx.nextIndex)
              THEN Continue("inDirectiveState", read)
              ELSE inDirectiveLoop(
                       [read EXCEPT !.stateBuffer =
                            Append(@, CharAt(ctx.input, ctx.nextIndex))],
                       data, tpl)
    ELSE ResolveDirective(ctx, data, tpl)

inDirectiveLoop(ctx, data, tpl) ==
    IF ~EndsWith(ctx.stateBuffer, tpl.end)
    THEN IF Len(ctx.stateBuffer) > MaxDirectiveLength
         THEN Throw(ctx, [name |-> "Error", message |-> DirectiveTooLongMessage])
         ELSE LET read == [ctx EXCEPT !.nextIndex = @ + 1] IN
              IF ~HasChar(ctx.input, ctx.nextIndex)
              THEN Continue("inDirectiveState", read)
              ELSE inDirectiveLoop(
                       [read EXCEPT !.stateBuffer =
                            Append(@, CharAt(ctx.input, ctx.nextIndex))],
                       data, tpl)
    ELSE ResolveDirective(ctx, data, tpl)

inDirectiveState(ctx, data, tpl) ==
    LET read == [ctx EXCEPT !.nextIndex = @ + 1] IN
    IF ~HasChar(ctx.input, ctx.nextIndex)
    THEN Continue("inDirectiveState", read)
    ELSE inDirectiveLoop(
             [read EXCEPT !.stateBuffer =
                  Append(@, CharAt(ctx.input, ctx.nextIndex))],
             data, tpl)

\* this.#nextState(this.#context)
CallState(state, ctx, data, tpl) ==
    CASE state = "lookingForDirectiveState" -> lookingForDirectiveState(ctx, tpl)
      [] state = "whitespaceConsumerState" ->
             whitespaceConsumerState(ctx, "inDirectiveState")
      [] state = "inDirectiveState" -> inDirectiveState(ctx, data, tpl)

-----------------------------------------------------------------------------
(* SwapTransform *)

\* The context the constructor builds.
NewContext == [input |-> <<>>, output |-> <<>>, stateBuffer |-> <<>>, nextIndex |-> 0]

Completed(state, ctx) ==
    [nextState |-> state, context |-> ctx, error |-> NoError]

Failed(state, ctx, err) ==
    [nextState |-> state, context |-> ctx, error |-> err]

\* The while loop of _transform.  A state function that returns another
\* function than the one called empties stateBuffer; the whitespace consumer
\* returns its own closure when it suspends, so comparing the functions is
\* comparing their names.
RECURSIVE DispatchLoop(_, _, _, _)
DispatchLoop(state, ctx, data, tpl) ==
    IF ctx.nextIndex < Len(ctx.input)
    THEN LET r == CallState(state, ctx, data, tpl) IN
         IF r.error # NoError
         THEN Failed(state, r.context, r.error)
         ELSE IF r.state # state
              THEN DispatchLoop(r.state, [r.context EXCEPT !.stateBuffer = <<>>],
                                data, tpl)
              ELSE DispatchLoop(state, r.context, data, tpl)
    ELSE Completed(state, ctx)

\* A _transform that also empties stateBuffer when a chunk arrives.
TransformForgetsBuffer(state, ctx, chunk, data, tpl) ==
    DispatchLoop(state, [ctx EXCEPT !.input = chunk, !.nextIndex = 0,
                                    !.stateBuffer = <<>>], data, tpl)

\* _transform up to the push: the chunk becomes the input, the index restarts
\* at 0 and the loop runs.
Transform(state, ctx, chunk, data, tpl) ==
    DispatchLoop(state, [ctx EXCEPT !.input = chunk, !.nextIndex = 0], data, tpl)

-----------------------------------------------------------------------------
(* The parts of the state a specification does not use *)

\* _transform is not followed step by step.
NoSteps == pc = "idle" /\ units = <<>> /\ chunks = <<>>

\* fromString is not called.
NotParsed == [ok |-> FALSE, template |-> NoTemplate, error |-> NoError]

NoParser == tstring = <<>> /\ tresult = NotParsed

\* No further SwapTransform instance is constructed.
NoStreams == streams = <<>>

\* No TemporaryFileWritable is constructed.
NoFile ==
    /\ writable = "none"
    /\ temporaryWritable = [pending |-> <<>>, inFile |-> FALSE, ended |-> FALSE,
                            finished |-> FALSE]
    /\ temporaryFile = <<>>
    /\ destinationFile = <<>>
    /\ copy = "none"

-----------------------------------------------------------------------------
(* The stream: a source delivers text in chunks of any size *)

\* At most this many pieces make up a text.
MaxPieces == 4

RawTemplates == { <<"<", "!", " ", ".", " ", "!", ">">> }

Templates == { fromString(raw).template : raw \in { r \in RawTemplates : fromString(r).ok } }

Data == Mapping(<<"a">> :> Leaf(<<"1">>))

\* The pieces texts are made of: the start token, the end token, the first
\* character of the start token, a key of a leaf, whitespace, a character
\* that is no key, and a complete directive.
Pieces(tpl) ==
    { tpl.start, tpl.end, <<Head(tpl.start)>>, <<"a">>, <<" ">>, <<"x">>,
      tpl.start \o <<"a">> \o tpl.end }

RECURSIVE TextsOf(_, _)
TextsOf(tpl, n) ==
    IF n = 0 THEN { <<>> }
    ELSE LET shorter == TextsOf(tpl, n - 1) IN
         shorter \cup { t \o p : t \in shorter, p \in Pieces(tpl) }

Init ==
    /\ template \in Templates
    /\ swapData = Data
    /\ text \in TextsOf(template, MaxPieces)
    /\ pos = 0
    /\ nextState = "lookingForDirectiveState"
    /\ context = NewContext
    /\ emitted = <<>>
    /\ status = "open"
    /\ error = NoError
    /\ rpath = <<>>
    /\ rsep = <<>>
    /\ rresult = NotCalled
    /\ NoSteps /\ NoParser /\ NoStreams /\ NoFile

\* A call of _transform that pushes the output also when a state function
\* has thrown.
TransformChunkPushesOnError(size) ==
    /\ status = "open"
    /\ pos + size <= Len(text)
    /\ LET r == Transform(nextState, context,
                          SubSeq(text, pos + 1, pos + size), swapData, template)
       IN  /\ nextState' = r.nextState
           /\ context' = [r.context EXCEPT !.output = <<>>]
           /\ emitted' = emitted \o r.context.output
           /\ status' = IF r.error # NoError THEN "errored" ELSE "open"
           /\ error' = IF r.error # NoError THEN r.error ELSE error
    /\ pos' = pos + size
    /\ UNCHANGED <<template, swapData, text, rpath, rsep, rresult>>
    /\ UNCHANGED <<stepVars, parserVars, streams, fileVars>>

\* One call of _transform with the next size characters of the text.  On an
\* error the callback gets the error and nothing is pushed; otherwise the
\* output is pushed and cleared.
TransformChunk(size) ==
    /\ status = "open"
    /\ pos + size <= Len(text)
    /\ LET r == Transform(nextState, context,
                          SubSeq(text, pos + 1, pos + size), swapData, template)
       IN  /\ nextState' = r.nextState
           /\ IF r.error # NoError
              THEN /\ context' = r.context
                   /\ emitted' = emitted
                   /\ status' = "errored"
                   /\ error' = r.error
              ELSE /\ context' = [r.context EXCEPT !.output = <<>>]
                   /\ emitted' = emitted \o r.context.output
                   /\ status' = "open"
                   /\ error' = error
    /\ pos' = pos + size
    /\ UNCHANGED <<template, swapData, text, rpath, rsep, rresult>>
    /\ UNCHANGED <<stepVars, parserVars, streams, fileVars>>

\* The source ends: SwapTransform defines no _flush, so nothing more is
\* pushed and the stream finishes.
EndOfInput ==
    /\ status = "open"
    /\ pos = Len(text)
    /\ status' = "ended"
    /\ UNCHANGED <<template, swapData, text, pos, nextState, context, emitted,
                   error, rpath, rsep, rresult>>
    /\ UNCHANGED <<stepVars, parserVars, streams, fileVars>>

Next ==
    \/ \E size \in 1..(Len(text) - pos) : TransformChunk(size)
    \/ EndOfInput

Spec == Init /\ [][Next]_vars

-----------------------------------------------------------------------------
(* The resolver on its own: getValue applied to a path and a separator *)

\* At most this many pieces make up a path.
MaxPathPieces == 5

\* The empty separator is one the constructor of SwapDirectiveTemplate takes.
Separators == { <<>>, <<".">>, <<"-", ">">> }

\* { "": "5", "-": "4", a: "1", b: { a: "2", b: { a: "3" } } }
ResolveData ==
    Mapping(  (<<>> :> Leaf(<<"5">>))
           @@ (<<"-">> :> Leaf(<<"4">>))
           @@ (<<"a">> :> Leaf(<<"1">>))
           @@ (<<"b">> :> Mapping(  (<<"a">> :> Leaf(<<"2">>))
                                 @@ (<<"b">> :> Mapping(<<"a">> :> Leaf(<<"3">>))))))

PathPieces ==
    { <<"a">>, <<"b">>, <<".">>, <<"-">>, <<">">>, ValueOfKey, NameKey, LengthKey }

RECURSIVE PathsOf(_)
PathsOf(n) ==
    IF n = 0 THEN { <<>> }
    ELSE LET shorter == PathsOf(n - 1) IN
         shorter \cup { t \o p : t \in shorter, p \in PathPieces }

InitResolve ==
    /\ template \in Templates
    /\ swapData = ResolveData
    /\ text = <<>>
    /\ pos = 0
    /\ nextState = "lookingForDirectiveState"
    /\ context = NewContext
    /\ emitted = <<>>
    /\ status = "open"
    /\ error = NoError
    /\ rpath \in PathsOf(MaxPathPieces)
    /\ rsep \in Separators
    /\ rresult = NotCalled
    /\ NoSteps /\ NoParser /\ NoStreams /\ NoFile

ResolvePath ==
    /\ rresult = NotCalled
    /\ rresult' = getValue(swapData, rpath, rsep)
    /\ UNCHANGED <<template, swapData, text, pos, nextState, context, emitted,
                   status, error, rpath, rsep>>
    /\ UNCHANGED <<stepVars, parserVars, streams, fileVars>>

NextResolve == ResolvePath

SpecResolve == InitResolve /\ [][NextResolve]_vars

-----------------------------------------------------------------------------
(* What the resolver is to do, stated on the mappings' own keys *)

RECURSIVE Join(_, _)
Join(segments, separator) ==
    IF Len(segments) = 0 THEN <<>>
    ELSE IF Len(segments) = 1 THEN segments[1]
    ELSE segments[1] \o separator \o Join(Tail(segments), separator)

\* Whether sub occurs in s as a contiguous run.
ContainsSeq(s, sub) == \E i \in 1..(Len(s) + 1) : MatchesAt(s, sub, i)

\* The walk from the root, one own-key lookup per segment: it ends at a leaf
\* or at a mapping once the segments are used up, or stops at segment `at`,
\* blocked by a leaf or missing the key.
RECURSIVE WalkFrom(_, _, _)
WalkFrom(node, segments, i) ==
    IF i > Len(segments)
    THEN [kind |-> IF node.type = "string" THEN "leaf" ELSE "mapping",
          at |-> i, value |-> node.value]
    ELSE IF node.type = "string"
         THEN [kind |-> "blocked", at |-> i, value |-> <<>>]
         ELSE IF segments[i] \notin DOMAIN node.own
              THEN [kind |-> "missing", at |-> i, value |-> <<>>]
              ELSE WalkFrom(node.own[segments[i]], segments, i + 1)

ResolverCalled == rresult # NotCalled

ResolverSegments == Split(rpath, rsep)

ResolverWalk == WalkFrom(swapData, ResolverSegments, 1)

IsIndexIntoLeaf(err, path) ==
    /\ err.name = "TypeError"
    /\ err.message = <<"Tried to index into a leaf value in path \"">> \o path \o <<"\"">>

IsUnknownKey(err, segment, path) ==
    /\ err.name = "TypeError"
    /\ err.message = <<"Tried to index with a non-existent key \"">> \o segment
                        \o <<"\" in path \"">> \o path \o <<"\"">>

IsNotALeaf(err, path) ==
    /\ err.name = "TypeError"
    /\ err.message = <<"Value path \"">> \o path \o <<"\" didn't reach a leaf value">>

\* C4: the segments getValue walks are the pieces of the path between the
\* literal occurrences of the separator (joined by the separator they give
\* the path back, and none contains the separator; under the empty
\* separator they are the single characters), and when every segment
\* names an existing key and the walk ends at a leaf, getValue returns
\* exactly that leaf's string.
C4_ResolvesLeaf ==
    ResolverCalled =>
        /\ Join(ResolverSegments, rsep) = rpath
        /\ \A k \in 1..Len(ResolverSegments) :
               IF rsep = <<>> THEN Len(ResolverSegments[k]) = 1
               ELSE ~ContainsSeq(ResolverSegments[k], rsep)
        /\ ResolverWalk.kind = "leaf" => rresult = Returned(ResolverWalk.value)

\* A nested leaf reached through a separator of several characters.
C4_Witness ==
    /\ ResolverCalled
    /\ Len(rsep) > 1
    /\ Len(ResolverSegments) >= 2
    /\ ResolverWalk.kind = "leaf"
    /\ rresult = Returned(<<"2">>)

\* C5: when a segment names a key that is absent from the mapping reached so
\* far, getValue throws the non-existent-key error naming that segment and
\* the full path, and returns no value.
C5_UnknownKey ==
    (ResolverCalled /\ ResolverWalk.kind = "missing") =>
        /\ ~rresult.ok
        /\ IsUnknownKey(rresult.error, ResolverSegments[ResolverWalk.at], rpath)

\* C6: when the segments are used up and the node reached is a mapping,
\* getValue throws the didn't-reach-a-leaf error, whose message holds the
\* full path.
C6_NotALeaf ==
    (ResolverCalled /\ ResolverWalk.kind = "mapping") =>
        /\ ~rresult.ok
        /\ IsNotALeaf(rresult.error, rpath)
        /\ ContainsSeq(rresult.error.message, rpath)

\* A path of two segments that ends at a mapping.
C6_Witness ==
    /\ ResolverCalled
    /\ ResolverWalk.kind = "mapping"
    /\ Len(ResolverSegments) = 2
    /\ IsNotALeaf(rresult.error, rpath)

\* C7: when the walk reaches a leaf with a segment still to be consumed,
\* getValue throws the index-into-leaf error with the full path; and the
\* error thrown for a path is the one of its first failing segment, from
\* left to right.
C7_FirstFailure ==
    ResolverCalled =>
        /\ ResolverWalk.kind = "blocked" =>
               ~rresult.ok /\ IsIndexIntoLeaf(rresult.error, rpath)
        /\ ResolverWalk.kind = "missing" =>
               ~rresult.ok /\ IsUnknownKey(rresult.error,
                                           ResolverSegments[ResolverWalk.at], rpath)
        /\ ResolverWalk.kind = "mapping" =>
               ~rresult.ok /\ IsNotALeaf(rresult.error, rpath)

-----------------------------------------------------------------------------
(* What substitution is to do, stated on the whole text *)

\* The first index from i on that holds no whitespace (Len(s) + 1 if none).
RECURSIVE SkipWhitespace(_, _)
SkipWhitespace(s, i) ==
    IF i <= Len(s) /\ IsWhitespace(s[i]) THEN SkipWhitespace(s, i + 1) ELSE i

\* The index of the last character of the first occurrence of token that
\* starts at index j or later (0 if there is none).
FirstEndFrom(s, token, j) ==
    LET ends == { e \in 1..Len(s) :
                    e - Len(token) + 1 >= j /\ MatchesAt(s, token, e - Len(token) + 1) }
    IN  IF ends = {} THEN 0 ELSE CHOOSE e \in ends : \A f \in ends : e <= f

\* The text from index i on with every directive replaced by the leaf its
\* path names: a directive is the leftmost occurrence of the start token,
\* whitespace, a path, and the first end token after it.
RECURSIVE Substitute(_, _, _, _, _)
Substitute(s, i, out, tpl, data) ==
    IF i > Len(s) THEN [kind |-> "done", out |-> out]
    ELSE IF MatchesAt(s, tpl.start, i)
    THEN LET j == SkipWhitespace(s, i + Len(tpl.start))
             e == FirstEndFrom(s, tpl.end, j)
         IN  IF e = 0 THEN [kind |-> "unterminated", out |-> out]
             ELSE LET path == Trim(SubSeq(s, j, e - Len(tpl.end)))
                      walk == WalkFrom(data, Split(path, tpl.separator), 1)
                  IN  IF walk.kind = "leaf"
                      THEN Substitute(s, e + 1, out \o walk.value, tpl, data)
                      ELSE [kind |-> "unresolved", out |-> out]
    ELSE Substitute(s, i + 1, Append(out, s[i]), tpl, data)

Substituted == Substitute(text, 1, <<>>, template, swapData)

\* The text handed over so far, processed as one chunk by a new transform.
WholeRun(s) == Transform("lookingForDirectiveState", NewContext, s, swapData, template)

WholeOutput(s) ==
    IF WholeRun(s).error = NoError THEN WholeRun(s).context.output ELSE <<>>

\* Whether s ends with a non-empty proper prefix of token.
EndsWithPartial(s, token) ==
    \E k \in 1..(Len(token) - 1) : EndsWith(s, SubSeq(token, 1, k))

\* C1: for a text made of pass-through text and directives whose paths
\* resolve to leaves, under any chunking, the whole output of the ended
\* stream is the text with each directive replaced by its value and every
\* other character unchanged and in place.  (Stated here for the texts that
\* do not end inside a start token; those that do are the case of C3.)
C1_Substitution ==
    (status = "ended" /\ Substituted.kind = "done"
                      /\ ~EndsWithPartial(text, template.start))
        => emitted = Substituted.out

\* C2 as stated: for any text, the whole output is the same for every
\* chunking, that is, the same as for the text given as one chunk.
C2_AnyChunking ==
    status \in {"ended", "errored"} => emitted = WholeOutput(text)

\* C2 as amended: as long as no error is raised, the output emitted for the
\* characters received so far, the state to resume and its buffer are the
\* ones of the same characters received as one chunk, which raises no error
\* either.
C2_ChunkingWithoutError ==
    status # "errored" =>
        LET whole == WholeRun(SubSeq(text, 1, pos)) IN
        /\ whole.error = NoError
        /\ emitted = whole.context.output
        /\ nextState = whole.nextState
        /\ context.stateBuffer = whole.context.stateBuffer

\* A directive replaced although the last chunk was the final character of
\* its end token alone.
C2_Witness ==
    /\ status = "ended"
    /\ context.input = <<template.end[Len(template.end)]>>
    /\ Len(template.end) > 1
    /\ emitted = <<"x", "1">>

\* C3: a text that holds no directive comes out unchanged once the stream
\* has ended, under every chunking.
C3_NoDirective ==
    (status = "ended" /\ ~ContainsSeq(text, template.start)) => emitted = text

\* C9: a stream never ends successfully after the start token has been
\* matched without an end token following it.
C9_Unterminated ==
    status = "ended" => nextState = "lookingForDirectiveState"

-----------------------------------------------------------------------------
(* The stream around the length limit: a first chunk opens a directive,     *)
(* chunks of filler build a path about MaxDirectiveLength characters long,  *)
(* and short chunks follow                                                  *)

\* At most this many characters follow the longest buffer the limit allows.
MaxTail == 3

Fill(n) == [i \in 1..n |-> "a"]

\* Chunks of filler of this size fill the buffer exactly up to the limit.
FillSize == MaxDirectiveLength \div 32

\* { a: "1", "aaa...a" (MaxDirectiveLength - 1 characters): "1" }
LongData ==
    Mapping((<<"a">> :> Leaf(<<"1">>)) @@ (Fill(MaxDirectiveLength - 1) :> Leaf(<<"1">>)))

OpeningChunks(tpl) == { tpl.start, tpl.start \o <<" ">> }

FillChunks == { Fill(FillSize), Fill(FillSize - 1) }

TailChunks(tpl) ==
    { <<"a">>, <<" ">>, <<"a", "a">>, tpl.end, tpl.end \o <<"x">> }
        \cup { <<tpl.end[k]>> : k \in 1..Len(tpl.end) }

InitLong ==
    /\ template \in Templates
    /\ swapData = LongData
    /\ text = <<>>
    /\ pos = 0
    /\ nextState = "lookingForDirectiveState"
    /\ context = NewContext
    /\ emitted = <<>>
    /\ status = "open"
    /\ error = NoError
    /\ rpath = <<>>
    /\ rsep = <<>>
    /\ rresult = NotCalled
    /\ NoSteps /\ NoParser /\ NoStreams /\ NoFile

\* One call of _transform with a chunk the source produces now.
FeedChunk(chunk) ==
    /\ status = "open"
    /\ text' = text \o chunk
    /\ pos' = pos + Len(chunk)
    /\ LET r == Transform(nextState, context, chunk, swapData, template)
       IN  /\ nextState' = r.nextState
           /\ IF r.error # NoError
              THEN /\ context' = r.context
                   /\ emitted' = emitted
                   /\ status' = "errored"
                   /\ error' = r.error
              ELSE /\ context' = [r.context EXCEPT !.output = <<>>]
                   /\ emitted' = emitted \o r.context.output
                   /\ status' = "open"
                   /\ error' = error
    /\ UNCHANGED <<template, swapData, rpath, rsep, rresult>>
    /\ UNCHANGED <<stepVars, parserVars, streams, fileVars>>

FeedOpening ==
    /\ pos = 0
    /\ \E chunk \in OpeningChunks(template) : FeedChunk(chunk)

FeedFill ==
    /\ pos > 0
    /\ pos < Len(template.start) + MaxDirectiveLength - MaxTail
    /\ \E chunk \in FillChunks : FeedChunk(chunk)

FeedTail ==
    /\ pos >= Len(template.start) + MaxDirectiveLength - MaxTail
    /\ \E chunk \in TailChunks(template) :
           /\ pos + Len(chunk) <= Len(template.start) + 1 + MaxDirectiveLength + MaxTail
           /\ FeedChunk(chunk)

NextLong ==
    \/ FeedOpening
    \/ FeedFill
    \/ FeedTail
    \/ EndOfInput

SpecLong == InitLong /\ [][NextLong]_vars

-----------------------------------------------------------------------------
(* The length limit and the end of the stream on an error *)

\* The index in text of the first character of the directive's buffer: the
\* first character after the start token that is no whitespace.
DirectiveStart == SkipWhitespace(text, Len(template.start) + 1)

\* The number of characters of text the state functions have consumed.
ConsumedUpTo ==
    pos - Len(context.input)
        + (IF context.nextIndex < Len(context.input)
           THEN context.nextIndex ELSE Len(context.input))

IsDirectiveTooLong(err) ==
    /\ err.name = "Error"
    /\ err.message = DirectiveTooLongMessage

\* C8: in inDirectiveState the buffer is the text received after the skipped
\* leading whitespace, end-token characters included; a buffer of more than
\* 1024 characters that does not end with the end token has failed with
\* the too-long error; that error is never raised on a buffer of at most
\* 1024 characters; it is raised at the 1025th character of the buffer,
\* whatever the chunking; the buffer never holds more than 1025 characters.
C8_LengthLimit ==
    /\ nextState = "inDirectiveState" =>
           context.stateBuffer = SubSeq(text, DirectiveStart, ConsumedUpTo)
    /\ (/\ nextState = "inDirectiveState"
        /\ Len(context.stateBuffer) > 1024
        /\ ~EndsWith(context.stateBuffer, template.end))
           => (status = "errored" /\ IsDirectiveTooLong(error))
    /\ IsDirectiveTooLong(error) =>
           /\ status = "errored"
           /\ Len(context.stateBuffer) = 1025
           /\ context.stateBuffer = SubSeq(text, DirectiveStart, DirectiveStart + 1024)
    /\ Len(context.stateBuffer) <= 1025

\* The too-long error raised in the middle of a chunk, after leading
\* whitespace was skipped.
C8_Witness ==
    /\ status = "errored"
    /\ IsDirectiveTooLong(error)
    /\ Len(context.stateBuffer) = 1025
    /\ DirectiveStart = Len(template.start) + 2
    /\ context.nextIndex < Len(context.input)

\* The chunk a step hands to _transform.
StepChunk == SubSeq(text', pos + 1, pos')

\* The least q such that buffer followed by the first q characters of chunk
\* ends with token (0 if there is none).
FirstClose(buffer, chunk, token) ==
    LET closes == { q \in 1..Len(chunk) :
                      EndsWith(buffer \o SubSeq(chunk, 1, q), token) }
    IN  IF closes = {} THEN 0 ELSE CHOOSE q \in closes : \A r \in closes : q <= r

\* The q at which buffer followed by the first q characters of chunk is 1025
\* characters long (0 if the chunk is too short for that).
FirstOver(buffer, chunk) ==
    LET q == 1025 - Len(buffer) IN
    IF q >= 1 /\ q <= Len(chunk) THEN q ELSE 0

\* C10: when a chunk closes the open directive and its path does not
\* resolve, or makes the open directive too long, the step ends with that
\* error given to the callback, pushes nothing, stays in the directive and
\* leaves the rest of the chunk unconsumed; and once an error was given to
\* the callback nothing changes any more, so no output follows it.
C10_ErrorTerminates ==
    [][ /\ (status = "open" /\ nextState = "inDirectiveState" /\ pos' > pos) =>
            LET close == FirstClose(context.stateBuffer, StepChunk, template.end)
                over == FirstOver(context.stateBuffer, StepChunk)
                closed == context.stateBuffer \o SubSeq(StepChunk, 1, close)
                got == getValue(swapData,
                                Trim(SubSeq(closed, 1, Len(closed) - Len(template.end))),
                                template.separator)
            IN  /\ (close # 0 /\ (over = 0 \/ close <= over) /\ ~got.ok) =>
                       /\ status' = "errored"
                       /\ error' = got.error
                       /\ emitted' = emitted
                       /\ nextState' = nextState
                       /\ context'.nextIndex = close
                /\ (over # 0 /\ (close = 0 \/ close > over)) =>
                       /\ status' = "errored"
                       /\ IsDirectiveTooLong(error')
                       /\ emitted' = emitted
                       /\ nextState' = nextState
                       /\ context'.nextIndex = over
        /\ status = "errored" => vars' = vars
        /\ status' = "errored" => (error' # NoError /\ emitted' = emitted)
      ]_vars

\* A resolver failure on the directive a chunk closes, with a character of
\* that chunk left unconsumed after the end token.
C10_Witness ==
    /\ status = "errored"
    /\ error.name = "TypeError"
    /\ context.input = template.end \o <<"x">>
    /\ context.nextIndex = Len(template.end)
    /\ emitted = <<>>

-----------------------------------------------------------------------------
(* _transform step by step: the chunk arrives, the while loop runs one      *)
(* iteration at a time, the output is pushed                                *)

\* At most this many chunks are handed to _transform.
MaxChunks == 3

\* The chunks the source delivers: the pieces of a text, and a chunk that
\* closes a directive, passes a character through and opens the next one.
StepChunks(tpl) ==
    Pieces(tpl) \cup { <<"a">> \o tpl.end \o <<"x">> \o tpl.start }

\* One iteration of the while loop of _transform that keeps stateBuffer when
\* the state function returns another function.
DispatchOnceKeepsBuffer(state, ctx, data, tpl) ==
    LET r == CallState(state, ctx, data, tpl) IN
    IF r.error # NoError
    THEN Failed(state, r.context, r.error)
    ELSE Completed(r.state, r.context)

\* One iteration of the while loop of _transform: the state function is
\* called; a throw leaves #nextState as it was; another function returned
\* empties stateBuffer and becomes #nextState.
DispatchOnce(state, ctx, data, tpl) ==
    LET r == CallState(state, ctx, data, tpl) IN
    IF r.error # NoError
    THEN Failed(state, r.context, r.error)
    ELSE IF r.state # state
         THEN Completed(r.state, [r.context EXCEPT !.stateBuffer = <<>>])
         ELSE Completed(state, r.context)

InitSteps ==
    /\ template \in Templates
    /\ swapData = Data
    /\ text = <<>>
    /\ pos = 0
    /\ nextState = "lookingForDirectiveState"
    /\ context = NewContext
    /\ emitted = <<>>
    /\ status = "open"
    /\ error = NoError
    /\ rpath = <<>>
    /\ rsep = <<>>
    /\ rresult = NotCalled
    /\ NoSteps /\ NoParser /\ NoStreams /\ NoFile

\* A chunk arrival that also empties stateBuffer.
ReceiveChunkRestarts(chunk) ==
    /\ pc = "idle"
    /\ status = "open"
    /\ Len(chunks) < MaxChunks
    /\ context' = [context EXCEPT !.input = chunk, !.nextIndex = 0,
                                  !.stateBuffer = <<>>]
    /\ chunks' = Append(chunks, chunk)
    /\ text' = text \o chunk
    /\ pos' = pos + Len(chunk)
    /\ pc' = "loop"
    /\ UNCHANGED <<template, swapData, nextState, emitted, status, error, units>>
    /\ UNCHANGED <<resolverVars, parserVars, streams, fileVars>>

\* _transform is called: the chunk becomes the input and the index restarts.
ReceiveChunk(chunk) ==
    /\ pc = "idle"
    /\ status = "open"
    /\ Len(chunks) < MaxChunks
    /\ context' = [context EXCEPT !.input = chunk, !.nextIndex = 0]
    /\ chunks' = Append(chunks, chunk)
    /\ text' = text \o chunk
    /\ pos' = pos + Len(chunk)
    /\ pc' = "loop"
    /\ UNCHANGED <<template, swapData, nextState, emitted, status, error, units>>
    /\ UNCHANGED <<resolverVars, parserVars, streams, fileVars>>

\* One iteration of the while loop; on a throw the callback gets the error
\* and _transform returns.
LoopIteration ==
    /\ pc = "loop"
    /\ context.nextIndex < Len(context.input)
    /\ LET r == DispatchOnce(nextState, context, swapData, template) IN
       /\ nextState' = r.nextState
       /\ context' = r.context
       /\ IF r.error # NoError
          THEN status' = "errored" /\ error' = r.error /\ pc' = "idle"
          ELSE UNCHANGED <<status, error, pc>>
    /\ UNCHANGED <<template, swapData, text, pos, emitted, units, chunks>>
    /\ UNCHANGED <<resolverVars, parserVars, streams, fileVars>>

\* An end of _transform that pushes the output only when there is some.
PushOutputSkipsEmpty ==
    /\ pc = "loop"
    /\ ~(context.nextIndex < Len(context.input))
    /\ units' = IF context.output = <<>> THEN units ELSE Append(units, context.output)
    /\ emitted' = emitted \o context.output
    /\ context' = [context EXCEPT !.output = <<>>]
    /\ pc' = "idle"
    /\ UNCHANGED <<template, swapData, text, pos, nextState, status, error, chunks>>
    /\ UNCHANGED <<resolverVars, parserVars, streams, fileVars>>

\* The loop is over: the output is pushed and cleared, the callback called.
PushOutput ==
    /\ pc = "loop"
    /\ ~(context.nextIndex < Len(context.input))
    /\ units' = Append(units, context.output)
    /\ emitted' = emitted \o context.output
    /\ context' = [context EXCEPT !.output = <<>>]
    /\ pc' = "idle"
    /\ UNCHANGED <<template, swapData, text, pos, nextState, status, error, chunks>>
    /\ UNCHANGED <<resolverVars, parserVars, streams, fileVars>>

\* The source ends between two calls of _transform.
EndOfSteps ==
    /\ pc = "idle"
    /\ EndOfInput

NextSteps ==
    \/ \E chunk \in StepChunks(template) : ReceiveChunk(chunk)
    \/ LoopIteration
    \/ PushOutput
    \/ EndOfSteps

SpecSteps == InitSteps /\ [][NextSteps]_vars

-----------------------------------------------------------------------------
(* One push per chunk, and the buffer across transitions and suspensions *)

\* The concatenation of the first k elements of a sequence of strings.
ConcatFirst(strings, k) == Join(SubSeq(strings, 1, k), <<>>)

\* C11: as long as no error is raised, every chunk handed to _transform is
\* answered by exactly one push (of the empty string when the chunk yields
\* nothing), the pushes come in the order of the chunks (the first k of
\* them together are the output of the first k chunks), and the pending
\* output is empty after each push.
C11_OneUnitPerChunk ==
    status # "errored" =>
        /\ Len(units) = IF pc = "idle" THEN Len(chunks) ELSE Len(chunks) - 1
        /\ pc = "idle" => context.output = <<>>
        /\ \A k \in 1..Len(units) :
               ConcatFirst(units, k) = WholeOutput(ConcatFirst(chunks, k))

\* Three chunks answered by two empty pushes and the value of the directive
\* they spell.
C11_Witness ==
    /\ pc = "idle"
    /\ status = "open"
    /\ chunks = << template.start, <<"a">>, template.end >>
    /\ units = << <<>>, <<>>, <<"1">> >>

\* C19: every step that moves #nextState to another state leaves stateBuffer
\* empty, also when the step consumes the last character of the chunk; the
\* push and the arrival of the next chunk leave state and buffer alone, so
\* the new state handles its first character with an empty buffer; and the
\* whitespace consumer, which accumulates nothing, always has an empty buffer.
C19_TransitionResets ==
    [][ /\ nextState' # nextState =>
               /\ pc = "loop"
               /\ context'.stateBuffer = <<>>
        /\ (chunks' # chunks \/ units' # units) =>
               /\ nextState' = nextState
               /\ context'.stateBuffer = context.stateBuffer
        /\ nextState' = "whitespaceConsumerState" => context'.stateBuffer = <<>>
      ]_vars

\* The end token closed a directive with the last character of a chunk: the
\* engine is back to looking for a directive, with an empty buffer, when the
\* next chunk is in.
C19_Witness ==
    /\ pc = "loop"
    /\ context.nextIndex = 0
    /\ Len(chunks) = 3
    /\ chunks[2] = <<"a">> \o template.end \o <<"x">> \o template.start
    /\ nextState = "whitespaceConsumerState"
    /\ context.stateBuffer = <<>>
    /\ units[2] = <<"1", "x">>

\* C20: the arrival of a chunk changes the input and the index (to 0) and
\* nothing else of the context, and leaves #nextState alone; the push before
\* it leaves state and buffer alone; and a state function that returns
\* itself has run out of input and keeps what it accumulated: the buffer of
\* inDirectiveState grows by the characters read, the buffer of the
\* whitespace consumer stays as it is.
C20_Resumption ==
    [][ /\ chunks' # chunks =>
               /\ nextState' = nextState
               /\ context' = [context EXCEPT !.input = chunks'[Len(chunks')],
                                             !.nextIndex = 0]
        /\ units' # units =>
               /\ nextState' = nextState
               /\ context'.stateBuffer = context.stateBuffer
        /\ (pc = "loop" /\ context.nextIndex < Len(context.input)
                /\ status' = "open" /\ nextState' = nextState) =>
               /\ context'.nextIndex >= Len(context.input)
               /\ nextState = "inDirectiveState" =>
                      context'.stateBuffer = context.stateBuffer
                          \o SubSeq(context.input, context.nextIndex + 1,
                                    Len(context.input))
               /\ nextState = "whitespaceConsumerState" =>
                      context'.stateBuffer = context.stateBuffer
      ]_vars

\* A chunk has arrived while a directive is open: the state is the one that
\* was suspended and its buffer holds what the chunks before gave it.
C20_Witness ==
    /\ pc = "loop"
    /\ context.nextIndex = 0
    /\ Len(chunks) = 3
    /\ nextState = "inDirectiveState"
    /\ context.stateBuffer = <<"a">>
    /\ context.input = template.end

-----------------------------------------------------------------------------
(* One directive with whitespace around its path *)

\* At most this many whitespace characters make up a short run of padding.
MaxPad == 2

\* The whitespace the padding is made of.
PadCharacters == { " ", "\r", "\n" }

RECURSIVE PadsOf(_)
PadsOf(n) ==
    IF n = 0 THEN { <<>> }
    ELSE LET shorter == PadsOf(n - 1) IN
         shorter \cup { Append(p, c) : p \in shorter, c \in PadCharacters }

Spaces(n) == [i \in 1..n |-> " "]

\* Short padding, and runs of spaces about as long as the limit of
\* inDirectiveState.
LeadingPads == PadsOf(MaxPad) \cup { Spaces(MaxDirectiveLength + 1) }

TrailingPads ==
    PadsOf(MaxPad)
        \cup { Spaces(MaxDirectiveLength - k) : k \in 1..3 }

\* { a: "1", "a b": "2", b: { a: "3" } }
SpaceData ==
    Mapping(  (<<"a">> :> Leaf(<<"1">>))
           @@ (<<"a", " ", "b">> :> Leaf(<<"2">>))
           @@ (<<"b">> :> Mapping(<<"a">> :> Leaf(<<"3">>))))

\* Paths without whitespace around them: keys of leaves, a key with a space
\* inside, the same with two spaces, a nested key, a mapping, no key, nothing.
SpacePaths ==
    { <<"a">>, <<"a", " ", "b">>, <<"a", " ", " ", "b">>, <<"b", ".", "a">>,
      <<"b">>, <<"x">>, <<>> }

\* A run of padding as long as the limit goes with no other padding.
PaddedDirectives(tpl) ==
    { tpl.start \o lead \o path \o trail \o tpl.end :
          lead \in PadsOf(MaxPad), path \in SpacePaths, trail \in PadsOf(MaxPad) }
    \cup { tpl.start \o lead \o path \o tpl.end :
          lead \in LeadingPads, path \in { <<"a">>, <<"a", " ", "b">> } }
    \cup { tpl.start \o path \o trail \o tpl.end :
          path \in { <<"a">>, <<"a", " ", "b">> }, trail \in TrailingPads }

\* The sizes of the chunks the source cuts the directive into.
PadChunkSizes == { 1, 2, FillSize }

InitSpace ==
    /\ template \in Templates
    /\ swapData = SpaceData
    /\ text \in PaddedDirectives(template)
    /\ pos = 0
    /\ nextState = "lookingForDirectiveState"
    /\ context = NewContext
    /\ emitted = <<>>
    /\ status = "open"
    /\ error = NoError
    /\ rpath = <<>>
    /\ rsep = <<>>
    /\ rresult = NotCalled
    /\ NoSteps /\ NoParser /\ NoStreams /\ NoFile

NextSpace ==
    \/ \E size \in PadChunkSizes : TransformChunk(size)
    \/ EndOfInput

SpecSpace == InitSpace /\ [][NextSpace]_vars

-----------------------------------------------------------------------------
(* Whitespace around the path does not count *)

\* The indices of the characters of s that are no whitespace.
KeptIn(s) == { k \in 1..Len(s) : ~IsWhitespace(s[k]) }

\* s without the whitespace at its two ends.
Unpadded(s) ==
    IF KeptIn(s) = {} THEN <<>>
    ELSE SubSeq(s, CHOOSE k \in KeptIn(s) : \A m \in KeptIn(s) : k <= m,
                   CHOOSE k \in KeptIn(s) : \A m \in KeptIn(s) : k >= m)

\* What the text holds between its start token and its end token.
PaddedInner == SubSeq(text, Len(template.start) + 1, Len(text) - Len(template.end))

PaddedPath == Unpadded(PaddedInner)

\* The number of characters from the first one after the start token that
\* is no whitespace to the end of the text: the path, the whitespace after
\* it and the end token.
PaddedLength ==
    IF KeptIn(PaddedInner) = {} THEN Len(template.end)
    ELSE Len(text) - Len(template.start)
             - (CHOOSE k \in KeptIn(PaddedInner) : \A m \in KeptIn(PaddedInner) : k <= m)
             + 1

\* The same directive without whitespace around its path, as one chunk.
PlainRun == WholeRun(template.start \o PaddedPath \o template.end)

PaddedWalk == WalkFrom(swapData, Split(PaddedPath, template.separator), 1)

\* The stream has done with the padded directive what is done with the plain
\* one, and that is what the path, whitespace inside it included, names.
SameAsPlain ==
    /\ PlainRun.error = NoError =>
           /\ status = "ended"
           /\ error = NoError
           /\ emitted = PlainRun.context.output
           /\ nextState = "lookingForDirectiveState"
    /\ PlainRun.error # NoError =>
           /\ status = "errored"
           /\ error = PlainRun.error
           /\ emitted = <<>>
    /\ PaddedWalk.kind = "leaf" => (status = "ended" /\ emitted = PaddedWalk.value)
    /\ PaddedWalk.kind = "missing" =>
           IsUnknownKey(error, Split(PaddedPath, template.separator)[PaddedWalk.at],
                        PaddedPath)
    /\ PaddedWalk.kind = "mapping" => IsNotALeaf(error, PaddedPath)

\* C12 as stated: with any amount of whitespace before and after its path, a
\* directive resolves the same path and gives the same output (or the same
\* error) as without it; whitespace inside the path is part of the key.
C12_AnyWhitespace ==
    status \in {"ended", "errored"} => SameAsPlain

\* C12 as amended: the same, for whitespace of any length before the path,
\* and whitespace after it such that the path, that whitespace and the end
\* token together are at most 1025 characters.
C12_WhitespaceWithinLimit ==
    (status \in {"ended", "errored"} /\ PaddedLength <= MaxDirectiveLength + 1)
        => SameAsPlain

\* A path with a space inside and whitespace on both sides has resolved to
\* the leaf of the key with the space.
C12_Witness ==
    /\ status = "ended"
    /\ PaddedPath = <<"a", " ", "b">>
    /\ IsWhitespace(PaddedInner[1])
    /\ IsWhitespace(PaddedInner[Len(PaddedInner)])
    /\ emitted = <<"2">>

-----------------------------------------------------------------------------
(* The template parser on its own: fromString applied to a string *)

\* At most this many pieces make up a template string.
MaxTemplatePieces == 8

\* Two tokens, a space, and the two whitespace characters that end a line.
TemplatePieces == { <<"<", "!">>, <<".">>, <<" ">>, <<"\r", "\n">> }

RECURSIVE TemplateStringsOf(_)
TemplateStringsOf(n) ==
    IF n = 0 THEN { <<>> }
    ELSE LET shorter == TemplateStringsOf(n - 1) IN
         shorter \cup { t \o p : t \in shorter, p \in TemplatePieces }

InitTemplate ==
    /\ template = NoTemplate
    /\ swapData = Data
    /\ text = <<>>
    /\ pos = 0
    /\ nextState = "lookingForDirectiveState"
    /\ context = NewContext
    /\ emitted = <<>>
    /\ status = "open"
    /\ error = NoError
    /\ rpath = <<>>
    /\ rsep = <<>>
    /\ rresult = NotCalled
    /\ tstring \in TemplateStringsOf(MaxTemplatePieces)
    /\ tresult = NotParsed
    /\ NoSteps /\ NoStreams /\ NoFile

ParseTemplate ==
    /\ tresult = NotParsed
    /\ tresult' = fromString(tstring)
    /\ UNCHANGED <<engineVars, resolverVars, stepVars, tstring, streams, fileVars>>

NextTemplate == ParseTemplate

SpecTemplate == InitTemplate /\ [][NextTemplate]_vars

-----------------------------------------------------------------------------
(* What the parser is to do, stated on the runs of the string *)

TemplateParsed == tresult # NotParsed

\* The indices at which a token of s starts and ends: a token is a maximal
\* run of characters that are no whitespace.
TokenStarts(s) ==
    { k \in 1..Len(s) : ~IsWhitespace(s[k]) /\ (k = 1 \/ IsWhitespace(s[k - 1])) }

TokenEnds(s) ==
    { k \in 1..Len(s) : ~IsWhitespace(s[k]) /\ (k = Len(s) \/ IsWhitespace(s[k + 1])) }

TokenCount(s) == Cardinality(TokenStarts(s))

\* The n-th smallest element of a set of numbers.
NthOf(set, n) == CHOOSE k \in set : Cardinality({ m \in set : m <= k }) = n

\* The n-th token of s.
TokenOf(s, n) == SubSeq(s, NthOf(TokenStarts(s), n), NthOf(TokenEnds(s), n))

\* C13: for a string that holds exactly three tokens, fromString returns the
\* template whose start, separator and end are the first, second and third
\* token, whatever whitespace separates and surrounds them.
C13_ThreeTokens ==
    (TemplateParsed /\ TokenCount(tstring) = 3) =>
        /\ tresult.ok
        /\ tresult.error = NoError
        /\ tresult.template = [start |-> TokenOf(tstring, 1),
                               separator |-> TokenOf(tstring, 2),
                               end |-> TokenOf(tstring, 3)]

\* Three tokens between margins, separated by runs of one and of two
\* whitespace characters.
C13_Witness ==
    /\ tstring = <<" ", "<", "!", "\r", "\n", ".", " ", ".", " ">>
    /\ tresult.ok
    /\ tresult.template = [start |-> <<"<", "!">>, separator |-> <<".">>,
                           end |-> <<".">>]

\* C14: for a string with fewer than three tokens (the empty string and a
\* string of whitespace included) fromString throws the too-few-tokens
\* error, for one with more than three the too-many-tokens error; the
\* message quotes the string as given, and no template is returned.
C14_WrongTokenCount ==
    TemplateParsed =>
        /\ TokenCount(tstring) < 3 =>
               /\ ~tresult.ok
               /\ tresult.template = NoTemplate
               /\ tresult.error.name = "Error"
               /\ tresult.error.message =
                      <<"Invalid directive template \"">> \o tstring
                          \o <<"\" has too few tokens.">>
        /\ TokenCount(tstring) > 3 =>
               /\ ~tresult.ok
               /\ tresult.template = NoTemplate
               /\ tresult.error.name = "Error"
               /\ tresult.error.message =
                      <<"Invalid directive template \"">> \o tstring
                          \o <<"\" has too many tokens.">>

\* Four tokens behind a margin: the message quotes the margin too.
C14_Witness ==
    /\ tstring = <<" ", "<", "!", " ", ".", " ", ".", " ", "<", "!">>
    /\ ~tresult.ok
    /\ tresult.error.message =
           <<"Invalid directive template \"", " ", "<", "!", " ", ".", " ", ".",
             " ", "<", "!", "\" has too many tokens.">>

\* C15: the start, the separator and the end of every template fromString
\* returns are non-empty and hold no whitespace character.
C15_TokensNonEmpty ==
    (TemplateParsed /\ tresult.ok) =>
        \A token \in { tresult.template.start, tresult.template.separator,
                       tresult.template.end } :
            /\ token # <<>>
            /\ \A k \in 1..Len(token) : ~IsWhitespace(token[k])

\* A template of tokens that were separated by runs of two whitespace
\* characters.
C15_Witness ==
    /\ tstring = <<".", "\r", "\n", "<", "!", ".", "\r", "\n", "<", "!">>
    /\ tresult.ok
    /\ tresult.template.separator = <<"<", "!", ".">>

-----------------------------------------------------------------------------
(* Values that look like directives *)

\* At most this many pieces make up a text of this section.
MaxLiteralPieces == 3

\* { a: "<!c!>", b: "<!", c: "1" } for the template "<! . !>": a value that
\* is a complete directive, a value that is the start token, a plain value.
LiteralData(tpl) ==
    Mapping(  (<<"a">> :> Leaf(tpl.start \o <<"c">> \o tpl.end))
           @@ (<<"b">> :> Leaf(tpl.start))
           @@ (<<"c">> :> Leaf(<<"1">>)))

\* The directives of the three keys, a character that passes through, and
\* what would close a directive had the value of b opened one.
LiteralPieces(tpl) ==
    { tpl.start \o <<"a">> \o tpl.end, tpl.start \o <<"b">> \o tpl.end,
      tpl.start \o <<"c">> \o tpl.end, <<"x">>, <<"c">> \o tpl.end }

RECURSIVE LiteralTextsOf(_, _)
LiteralTextsOf(tpl, n) ==
    IF n = 0 THEN { <<>> }
    ELSE LET shorter == LiteralTextsOf(tpl, n - 1) IN
         shorter \cup { t \o p : t \in shorter, p \in LiteralPieces(tpl) }

InitLiteral ==
    /\ template \in Templates
    /\ swapData = LiteralData(template)
    /\ text \in LiteralTextsOf(template, MaxLiteralPieces)
    /\ pos = 0
    /\ nextState = "lookingForDirectiveState"
    /\ context = NewContext
    /\ emitted = <<>>
    /\ status = "open"
    /\ error = NoError
    /\ rpath = <<>>
    /\ rsep = <<>>
    /\ rresult = NotCalled
    /\ NoSteps /\ NoParser /\ NoStreams /\ NoFile

NextLiteral ==
    \/ \E size \in 1..(Len(text) - pos) : TransformChunk(size)
    \/ EndOfInput

SpecLiteral == InitLiteral /\ [][NextLiteral]_vars

\* The part of the text handed to _transform so far, with its directives
\* replaced by their values, each value put in as it is.
SubstitutedSoFar == Substitute(SubSeq(text, 1, pos), 1, <<>>, template, swapData)

\* The indices of s at which a directive ends, found from index i on.
RECURSIVE DirectiveEndsFrom(_, _, _)
DirectiveEndsFrom(s, i, tpl) ==
    IF i > Len(s) THEN {}
    ELSE IF MatchesAt(s, tpl.start, i)
    THEN LET e == FirstEndFrom(s, tpl.end, SkipWhitespace(s, i + Len(tpl.start)))
         IN  IF e = 0 THEN {} ELSE {e} \cup DirectiveEndsFrom(s, e + 1, tpl)
    ELSE DirectiveEndsFrom(s, i + 1, tpl)

\* C16: the value of a directive goes to the output as it is, also when it
\* holds the start token or a complete directive, and scanning goes on
\* behind the directive: the output is the text with every directive
\* replaced once, and right after a directive was replaced the engine is
\* looking for a directive with an empty buffer.
C16_ValueNotRescanned ==
    /\ (status = "ended" /\ SubstitutedSoFar.kind = "done") =>
           emitted = SubstitutedSoFar.out
    /\ (status # "errored" /\ pos \in DirectiveEndsFrom(text, 1, template)) =>
           /\ nextState = "lookingForDirectiveState"
           /\ context.stateBuffer = <<>>
           /\ emitted = SubstitutedSoFar.out
    /\ status # "errored"

\* The value of b, the start token, came out as it is, and the "c!>" behind
\* the directive passed through instead of closing a directive.
C16_Witness ==
    /\ status = "ended"
    /\ text = template.start \o <<"b">> \o template.end \o <<"c">> \o template.end
    /\ emitted = template.start \o <<"c">> \o template.end

-----------------------------------------------------------------------------
(* Several SwapTransform instances on one template and one data tree *)

\* At most this many characters make up a chunk of this section.
MaxStreamChunk == 2

\* The instances, each constructed with the same template and swapData.
Instances == { 1, 2 }

\* The texts of the streams: a directive, a directive behind a character,
\* a directive whose key is unknown, a directive left open.
StreamTexts(tpl) ==
    { tpl.start \o <<"a">> \o tpl.end,
      <<"x">> \o tpl.start \o <<"a">> \o tpl.end,
      tpl.start \o <<"x">> \o tpl.end,
      tpl.start \o <<" ", "a">> }

\* The object a SwapTransform constructed with one context object for the
\* whole module has as its #context.
ContextOfModule(i) == "context"

\* The object the constructor of instance i makes for its #context: the
\* object literal is a new object at every construction.
ContextOf(i) == "context" \o ToString(i)

\* The instances as their constructors leave them, and the objects they
\* refer to.  The parameters are spread into the context, so every context
\* refers to the one template and the one data tree; an instance holds its
\* #nextState, a reference to its #context and what it has pushed, with the
\* text its source will deliver and the sizes of the chunks delivered so far.
NewStreams(texts, data, tpl) ==
    [instances |->
         [i \in Instances |->
             [text |-> texts[i], pos |-> 0, sizes |-> <<>>,
              nextState |-> "lookingForDirectiveState",
              context |-> ContextOf(i),
              emitted |-> <<>>, status |-> "open", error |-> NoError]],
     objects |->
         [id \in {"template", "swapData"} \cup { ContextOf(i) : i \in Instances } |->
             IF id = "template" THEN tpl
             ELSE IF id = "swapData" THEN data
             ELSE [input |-> <<>>, output |-> <<>>, stateBuffer |-> <<>>,
                   nextIndex |-> 0,
                   swapData |-> "swapData", template |-> "template"]]]

\* _transform of instance i, called with the next size characters of its
\* text: the state functions read and write the object #context refers to,
\* and read the template and the data tree that object refers to; the
\* instance keeps the state returned, and pushes the output unless a state
\* function has thrown.
StreamsAfter(all, i, size) ==
    LET instance == all.instances[i]
        object == all.objects[instance.context]
        r == Transform(instance.nextState,
                       [input |-> object.input, output |-> object.output,
                        stateBuffer |-> object.stateBuffer,
                        nextIndex |-> object.nextIndex],
                       SubSeq(instance.text, instance.pos + 1, instance.pos + size),
                       all.objects[object.swapData],
                       all.objects[object.template])
        failed == r.error # NoError
    IN  [instances |->
             [all.instances EXCEPT ![i] =
                 [instance EXCEPT
                     !.pos = @ + size,
                     !.sizes = Append(@, size),
                     !.nextState = r.nextState,
                     !.emitted = IF failed THEN @ ELSE @ \o r.context.output,
                     !.status = IF failed THEN "errored" ELSE @,
                     !.error = IF failed THEN r.error ELSE @]],
         objects |->
             [all.objects EXCEPT ![instance.context] =
                 [object EXCEPT
                     !.input = r.context.input,
                     !.nextIndex = r.context.nextIndex,
                     !.stateBuffer = r.context.stateBuffer,
                     !.output = IF failed THEN r.context.output ELSE <<>>]]]

InitStreams ==
    /\ template \in Templates
    /\ swapData = Data
    /\ text = <<>>
    /\ pos = 0
    /\ nextState = "lookingForDirectiveState"
    /\ context = NewContext
    /\ emitted = <<>>
    /\ status = "open"
    /\ error = NoError
    /\ rpath = <<>>
    /\ rsep = <<>>
    /\ rresult = NotCalled
    /\ \E texts \in [Instances -> StreamTexts(template)] :
           streams = NewStreams(texts, swapData, template)
    /\ NoSteps /\ NoParser /\ NoFile

\* One instance processes its next chunk.
TransformOf(i, size) ==
    /\ streams.instances[i].status = "open"
    /\ streams.instances[i].pos + size <= Len(streams.instances[i].text)
    /\ streams' = StreamsAfter(streams, i, size)
    /\ UNCHANGED <<engineVars, resolverVars, stepVars, parserVars, fileVars>>

\* The source of one instance ends.
EndOf(i) ==
    /\ streams.instances[i].status = "open"
    /\ streams.instances[i].pos = Len(streams.instances[i].text)
    /\ streams' = [streams EXCEPT !.instances[i].status = "ended"]
    /\ UNCHANGED <<engineVars, resolverVars, stepVars, parserVars, fileVars>>

NextStreams ==
    \/ \E i \in Instances, size \in 1..MaxStreamChunk : TransformOf(i, size)
    \/ \E i \in Instances : EndOf(i)

SpecStreams == InitStreams /\ [][NextStreams]_vars

\* A SwapTransform that runs alone, as an engine of its own: what it has
\* pushed, its state, its context and its error after the chunks of the
\* given sizes, from the k-th on, of the text.
RECURSIVE AloneFrom(_, _, _, _)
AloneFrom(engine, s, sizes, k) ==
    IF k > Len(sizes) THEN engine
    ELSE LET r == Transform(engine.nextState, engine.context,
                            SubSeq(s, engine.pos + 1, engine.pos + sizes[k]),
                            Data, CHOOSE tpl \in Templates : TRUE)
         IN  AloneFrom(
                 IF r.error # NoError
                 THEN [pos |-> engine.pos + sizes[k], nextState |-> r.nextState,
                       context |-> r.context, emitted |-> engine.emitted,
                       error |-> r.error]
                 ELSE [pos |-> engine.pos + sizes[k], nextState |-> r.nextState,
                       context |-> [r.context EXCEPT !.output = <<>>],
                       emitted |-> engine.emitted \o r.context.output,
                       error |-> NoError],
                 s, sizes, k + 1)

Alone(instance) ==
    AloneFrom([pos |-> 0, nextState |-> "lookingForDirectiveState",
               context |-> NewContext, emitted |-> <<>>, error |-> NoError],
              instance.text, instance.sizes, 1)

\* C17: whatever the order in which the instances process their chunks, each
\* instance has, after every step, pushed the output, reached the state and
\* left in the object of its context the buffer, input, index and output
\* that a SwapTransform has which processes the same chunks alone, and fails
\* where that one fails; and the template and the data tree that all the
\* contexts refer to are the ones the instances were constructed with.
C17_Independent ==
    /\ \A i \in Instances :
           LET instance == streams.instances[i]
               object == streams.objects[instance.context]
               alone == Alone(instance)
           IN  /\ instance.emitted = alone.emitted
               /\ instance.nextState = alone.nextState
               /\ instance.error = alone.error
               /\ (instance.status = "errored") <=> (alone.error # NoError)
               /\ object.stateBuffer = alone.context.stateBuffer
               /\ object.input = alone.context.input
               /\ object.nextIndex = alone.context.nextIndex
               /\ object.output = alone.context.output
               /\ object.template = "template"
               /\ object.swapData = "swapData"
    /\ streams.objects["template"] = template
    /\ streams.objects["swapData"] = swapData
    /\ template \in Templates
    /\ swapData = Data

\* One instance has failed on its unknown key after three chunks while the
\* other, two chunks into the same kind of text, holds the key in the buffer
\* of its own context object.
C17_Witness ==
    /\ streams.instances[1].nextState = "inDirectiveState"
    /\ streams.objects[streams.instances[1].context].stateBuffer = <<"x">>
    /\ Len(streams.instances[1].sizes) = 2
    /\ streams.instances[2].status = "errored"
    /\ streams.instances[2].text = streams.instances[1].text
    /\ Len(streams.instances[2].sizes) = 3
    /\ streams.instances[2].context # streams.instances[1].context

-----------------------------------------------------------------------------
(* TemporaryFileWritable: the sink of the command line tool *)

\* At most this many characters are written to the stream.
MaxWritten == 3

\* The chunks the stream is given.
FileChunks == { <<"1">>, <<"x", "y">> }

\* What the file at the destination path holds before the tool runs
\* (nothing when there is no such file).
OldContents == { <<>>, <<"o", "l", "d">> }

\* Everything handed to #temporaryWritable so far: what is in the temporary
\* file and what still waits to be written to it (pending holds the chunks
\* whose callback was not called yet; the first of them may be in the file
\* already).
Written ==
    temporaryFile
        \o Join(IF temporaryWritable.inFile THEN Tail(temporaryWritable.pending)
                ELSE temporaryWritable.pending, <<>>)

\* The constructor: an empty temporary file and a write stream on it.
InitFile ==
    /\ template = NoTemplate
    /\ swapData = Data
    /\ text = <<>>
    /\ pos = 0
    /\ nextState = "lookingForDirectiveState"
    /\ context = NewContext
    /\ emitted = <<>>
    /\ status = "open"
    /\ error = NoError
    /\ rpath = <<>>
    /\ rsep = <<>>
    /\ rresult = NotCalled
    /\ NoSteps /\ NoParser /\ NoStreams
    /\ writable = "open"
    /\ temporaryWritable = [pending |-> <<>>, inFile |-> FALSE, ended |-> FALSE,
                            finished |-> FALSE]
    /\ temporaryFile = <<>>
    /\ destinationFile \in OldContents
    /\ copy = "none"

\* _write: the chunk is handed to #temporaryWritable; the stream takes no
\* other chunk until the callback is called.
Write(chunk) ==
    /\ writable = "open"
    /\ Len(Written) + Len(chunk) <= MaxWritten
    /\ temporaryWritable' = [temporaryWritable EXCEPT !.pending = Append(@, chunk)]
    /\ writable' = "writing"
    /\ UNCHANGED <<temporaryFile, destinationFile, copy>>
    /\ UNCHANGED <<engineVars, resolverVars, stepVars, parserVars, streams>>

\* #temporaryWritable writes its oldest pending chunk to the temporary file;
\* the callback of that write is called in a later turn.
TemporaryWrite ==
    /\ temporaryWritable.pending # <<>>
    /\ ~temporaryWritable.inFile
    /\ temporaryFile' = temporaryFile \o Head(temporaryWritable.pending)
    /\ temporaryWritable' = [temporaryWritable EXCEPT !.inFile = TRUE]
    /\ UNCHANGED <<writable, destinationFile, copy>>
    /\ UNCHANGED <<engineVars, resolverVars, stepVars, parserVars, streams>>

\* The callback of the write is called: the stream takes the next chunk.
WriteCallback ==
    /\ temporaryWritable.inFile
    /\ temporaryWritable' = [temporaryWritable EXCEPT !.pending = Tail(@),
                                                      !.inFile = FALSE]
    /\ writable' = IF writable = "writing" THEN "open" ELSE writable
    /\ UNCHANGED <<temporaryFile, destinationFile, copy>>
    /\ UNCHANGED <<engineVars, resolverVars, stepVars, parserVars, streams>>

\* _final, called once the stream was ended and every chunk acknowledged:
\* the listener for "finish" is registered and #temporaryWritable ended.
Final ==
    /\ writable = "open"
    /\ temporaryWritable' = [temporaryWritable EXCEPT !.ended = TRUE]
    /\ writable' = "finalizing"
    /\ UNCHANGED <<temporaryFile, destinationFile, copy>>
    /\ UNCHANGED <<engineVars, resolverVars, stepVars, parserVars, streams>>

\* #temporaryWritable has written all it was given and emits "finish": the
\* listener starts the copy.
TemporaryFinish ==
    /\ temporaryWritable.ended
    /\ ~temporaryWritable.finished
    /\ temporaryWritable.pending = <<>>
    /\ temporaryWritable' = [temporaryWritable EXCEPT !.finished = TRUE]
    /\ copy' = "running"
    /\ UNCHANGED <<writable, temporaryFile, destinationFile>>
    /\ UNCHANGED <<engineVars, resolverVars, stepVars, parserVars, streams>>

\* copyFile at work, its promise pending: the destination is emptied or
\* created and takes the content of the temporary file from the beginning.
CopyWrites ==
    /\ copy = "running"
    /\ destinationFile # temporaryFile
    /\ destinationFile' \in
           { SubSeq(temporaryFile, 1, k) : k \in 0..Len(temporaryFile) }
    /\ destinationFile' # destinationFile
    /\ (/\ Len(destinationFile) <= Len(temporaryFile)
        /\ SubSeq(temporaryFile, 1, Len(destinationFile)) = destinationFile) =>
           Len(destinationFile') > Len(destinationFile)
    /\ UNCHANGED <<writable, temporaryWritable, temporaryFile, copy>>
    /\ UNCHANGED <<engineVars, resolverVars, stepVars, parserVars, streams>>

\* The promise of copyFile is fulfilled, the destination holding the
\* temporary file's content: the callback of _final is called.
CopySucceeds ==
    /\ copy = "running"
    /\ destinationFile = temporaryFile
    /\ copy' = "done"
    /\ writable' = IF writable = "finalizing" THEN "finished" ELSE writable
    /\ UNCHANGED <<temporaryWritable, temporaryFile, destinationFile>>
    /\ UNCHANGED <<engineVars, resolverVars, stepVars, parserVars, streams>>

\* The promise of copyFile is rejected: the destination is left as the copy
\* had it, or removed; the promise has no rejection handler, so the callback
\* of _final is not called.
CopyFails ==
    /\ copy = "running"
    /\ destinationFile' \in { destinationFile, <<>> }
    /\ copy' = "failed"
    /\ UNCHANGED <<writable, temporaryWritable, temporaryFile>>
    /\ UNCHANGED <<engineVars, resolverVars, stepVars, parserVars, streams>>

\* The stream is destroyed (by pipeline, when a stream before it fails):
\* TemporaryFileWritable has no _destroy, so #temporaryWritable goes on.
Destroy ==
    /\ writable \in {"open", "writing", "finalizing"}
    /\ writable' = "destroyed"
    /\ UNCHANGED <<temporaryWritable, temporaryFile, destinationFile, copy>>
    /\ UNCHANGED <<engineVars, resolverVars, stepVars, parserVars, streams>>

NextFile ==
    \/ \E chunk \in FileChunks : Write(chunk)
    \/ TemporaryWrite
    \/ WriteCallback
    \/ Final
    \/ TemporaryFinish
    \/ CopyWrites
    \/ CopySucceeds
    \/ CopyFails
    \/ Destroy

SpecFile == InitFile /\ [][NextFile]_vars

\* C18: no partial output is ever at the destination path.  A write adds
\* its chunk to what the temporary file is given and leaves the destination
\* alone; the destination changes only by the copy, which runs only after
\* _final has ended the temporary file's writer and that writer has finished
\* with nothing pending; a change of the destination puts there the whole of
\* what was written, never a part of it; and a stream that was destroyed
\* without having finished leaves the destination as it was.
C18_NoPartialOutput ==
    [][ /\ (writable = "open" /\ writable' = "writing") =>
               /\ destinationFile' = destinationFile
               /\ \E chunk \in FileChunks : Written' = Written \o chunk
        /\ temporaryFile' # temporaryFile => destinationFile' = destinationFile
        /\ destinationFile' # destinationFile =>
               /\ copy = "running"
               /\ temporaryWritable.ended
               /\ temporaryWritable.finished
               /\ temporaryWritable.pending = <<>>
               /\ destinationFile' = Written
               /\ writable # "destroyed"
        /\ copy' = "running" =>
               temporaryWritable'.finished /\ temporaryWritable'.pending = <<>>
        /\ ~temporaryWritable'.ended =>
               (destinationFile' = destinationFile /\ copy' = "none")
      ]_vars

-----------------------------------------------------------------------------
(* Scanning for the start token *)

\* At most this many characters make up a text of this section.
MaxScanPieces == 5

\* A start token of two characters and one of three.
ScanRawTemplates ==
    { <<"<", "!", " ", ".", " ", "!", ">">>,
      <<"<", "<", "!", " ", ".", " ", "!", ">">> }

ScanTemplates ==
    { fromString(raw).template : raw \in { r \in ScanRawTemplates : fromString(r).ok } }

\* The characters of the start tokens, of the end token, and another one.
ScanPieces == { <<"<">>, <<"!">>, <<">">>, <<"x">> }

RECURSIVE ScanTextsOf(_)
ScanTextsOf(n) ==
    IF n = 0 THEN { <<>> }
    ELSE LET shorter == ScanTextsOf(n - 1) IN
         shorter \cup { t \o p : t \in shorter, p \in ScanPieces }

InitScan ==
    /\ template \in ScanTemplates
    /\ swapData = Data
    /\ text \in ScanTextsOf(MaxScanPieces)
    /\ pos = 0
    /\ nextState = "lookingForDirectiveState"
    /\ context = NewContext
    /\ emitted = <<>>
    /\ status = "open"
    /\ error = NoError
    /\ rpath = <<>>
    /\ rsep = <<>>
    /\ rresult = NotCalled
    /\ NoSteps /\ NoParser /\ NoStreams /\ NoFile

NextScan ==
    \/ \E size \in 1..(Len(text) - pos) : TransformChunk(size)
    \/ EndOfInput

SpecScan == InitScan /\ [][NextScan]_vars

\* The number of characters of the start token that are matched after the
\* characters of s from the i-th on were taken one by one, m being matched
\* before: a character that is the next one expected adds to the match, any
\* other character ends it.  -1 once the whole token was matched.
RECURSIVE MatchedAfter(_, _, _, _)
MatchedAfter(s, i, m, token) ==
    IF m = Len(token) THEN -1
    ELSE IF i > Len(s) THEN m
    ELSE IF s[i] = token[m + 1] THEN MatchedAfter(s, i + 1, m + 1, token)
    ELSE MatchedAfter(s, i + 1, 0, token)

\* C21: in lookingForDirectiveState a character that is the next one the
\* start token expects goes to the buffer and leaves the output alone (the
\* character that completes the token hands over to the whitespace
\* consumer); any other character sends the buffer and itself to the output
\* and empties the buffer; so as long as scanning has not matched the whole
\* token, the output followed by the buffer is the text consumed so far.
C21_ScanningKeepsCharacters ==
    [][ /\ (status = "open" /\ nextState = "lookingForDirectiveState"
                /\ pos' = pos + 1) =>
               LET last == text[pos + 1]
                   matched == Len(context.stateBuffer)
               IN  IF last = template.start[matched + 1]
                   THEN /\ emitted' = emitted
                        /\ IF matched + 1 < Len(template.start)
                           THEN /\ nextState' = "lookingForDirectiveState"
                                /\ context'.stateBuffer
                                       = Append(context.stateBuffer, last)
                           ELSE /\ nextState' = "whitespaceConsumerState"
                                /\ context'.stateBuffer = <<>>
                   ELSE /\ emitted' = emitted \o context.stateBuffer \o <<last>>
                        /\ context'.stateBuffer = <<>>
                        /\ nextState' = "lookingForDirectiveState"
        /\ (status' = "open"
                /\ MatchedAfter(SubSeq(text, 1, pos'), 1, 0, template.start) # -1) =>
               /\ nextState' = "lookingForDirectiveState"
               /\ emitted' \o context'.stateBuffer = SubSeq(text, 1, pos')
               /\ Len(context'.stateBuffer)
                      = MatchedAfter(SubSeq(text, 1, pos'), 1, 0, template.start)
      ]_vars

\* Two characters of the three-character start token were matched, and the
\* character after them, handed over alone, broke the match: all three are
\* in the output.
C21_Witness ==
    /\ status = "open"
    /\ Len(template.start) = 3
    /\ pos = 3
    /\ context.input = <<"x">>
    /\ emitted = <<"<", "<", "x">>
    /\ context.stateBuffer = <<>>
    /\ nextState = "lookingForDirectiveState"

\* C22: scanning is left exactly at the end of the leftmost occurrence of
\* the start token in the text consumed: before that occurrence is complete
\* the engine is in lookingForDirectiveState, and when its last character
\* has been consumed the engine has left that state, with the text in
\* front of the occurrence as output.
C22_LeftmostStart ==
    status = "open" =>
        LET first == FirstMatchFrom(text, template.start, 1)
            last == first + Len(template.start) - 1
        IN  /\ (first = 0 \/ pos < last) => nextState = "lookingForDirectiveState"
            /\ (first # 0 /\ pos = last) =>
                   /\ nextState = "whitespaceConsumerState"
                   /\ emitted = SubSeq(text, 1, first - 1)

-----------------------------------------------------------------------------
(* The whitespace after the start token *)

\* The place of the first character after the start token that is not
\* whitespace, in a text that is one padded directive.
FirstKept ==
    LET kept == { k \in KeptIn(text) : k > Len(template.start) } IN
    CHOOSE k \in kept : \A other \in kept : k <= other

\* C23: the whitespace consumer takes whitespace and nothing else: while
\* the engine is in whitespaceConsumerState everything consumed after the
\* start token is whitespace and the buffer is empty, the engine stays in
\* that state up to the first character that is not whitespace, and in
\* inDirectiveState the buffer is the text from that character on, however
\* the whitespace is cut into chunks and also when there is none.
C23_OnlyWhitespaceConsumed ==
    status = "open" =>
        /\ nextState = "whitespaceConsumerState" =>
               /\ Len(template.start) <= pos /\ pos < FirstKept
               /\ context.stateBuffer = <<>>
        /\ (Len(template.start) <= pos /\ pos < FirstKept) =>
               nextState = "whitespaceConsumerState"
        /\ nextState = "inDirectiveState" =>
               /\ FirstKept <= pos
               /\ context.stateBuffer = SubSeq(text, FirstKept, pos)
        /\ (FirstKept <= pos /\ pos < Len(text)) =>
               nextState = "inDirectiveState"

\* Two characters of whitespace, cut apart by the chunks, are followed by
\* the end token: its first character is the whole buffer.
C23_Witness ==
    /\ status = "open"
    /\ text = template.start \o <<" ", "\n">> \o template.end
    /\ context.input = <<"\n", template.end[1]>>
    /\ nextState = "inDirectiveState"
    /\ context.stateBuffer = <<template.end[1]>>

-----------------------------------------------------------------------------
(* A directive cut into chunks *)

\* The directives of s from index i on, in text order, each with the index
\* of the first character of its start token, the index of the last
\* character of its end token (one past the text if there is none) and the
\* outcome of walking its path; nothing after a directive that has no end
\* or no leaf.
RECURSIVE DirectiveSpans(_, _, _, _)
DirectiveSpans(s, i, tpl, data) ==
    IF i > Len(s) THEN {}
    ELSE IF MatchesAt(s, tpl.start, i)
    THEN LET j == SkipWhitespace(s, i + Len(tpl.start))
             e == FirstEndFrom(s, tpl.end, j)
         IN  IF e = 0
             THEN { [first |-> i, last |-> Len(s) + 1,
                     walk |-> [kind |-> "unterminated"], path |-> <<>>] }
             ELSE LET path == Trim(SubSeq(s, j, e - Len(tpl.end)))
                      walk == WalkFrom(data, Split(path, tpl.separator), 1)
                      span == [first |-> i, last |-> e, walk |-> walk,
                               path |-> path]
                  IN  IF walk.kind = "leaf"
                      THEN { span } \cup DirectiveSpans(s, e + 1, tpl, data)
                      ELSE { span }
    ELSE DirectiveSpans(s, i + 1, tpl, data)

\* The output that the text in front of index i asks for.
OutputBefore(i) ==
    Substitute(SubSeq(text, 1, i - 1), 1, <<>>, template, swapData).out

\* C24: as long as the text handed over ends inside a directive, nothing of
\* that directive is in the output, which is the output of the text in front
\* of the directive (so a chunk inside the directive emits the empty string,
\* and a start token matched in part is held back); the chunk with the last
\* character of the end token emits the value.
C24_NothingBeforeEnd ==
    [][ \A span \in DirectiveSpans(text, 1, template, swapData) :
          /\ (status' = "open" /\ span.first <= pos' /\ pos' < span.last) =>
                 emitted' = OutputBefore(span.first)
          /\ (status' = "open" /\ pos < span.last /\ span.last <= pos') =>
                 LET before == OutputBefore(span.first) \o span.walk.value IN
                 /\ Len(emitted) < Len(before)
                 /\ Len(before) <= Len(emitted')
                 /\ SubSeq(emitted', 1, Len(before)) = before
      ]_vars

-----------------------------------------------------------------------------
(* The dispatch loop comes to an end *)

\* What the iteration of the dispatch loop that is about to run consumes.
ConsumedBy(state, ctx) ==
    DispatchOnce(state, ctx, swapData, template).context.nextIndex - ctx.nextIndex

\* C25: the iteration of the dispatch loop that is about to run consumes at
\* least one character of the chunk, or it consumes none and hands over,
\* with characters left, to another state function whose call consumes one,
\* so that the characters left and the hand-overs still possible go down
\* with every iteration and the loop ends; and without an error the loop is
\* left only when every character of the chunk is consumed, with one push.
C25_ChunkTerminates ==
    /\ [](  (pc = "loop" /\ context.nextIndex < Len(context.input)) =>
               LET r == DispatchOnce(nextState, context, swapData, template) IN
               \/ ConsumedBy(nextState, context) > 0
               \/ /\ ConsumedBy(nextState, context) = 0
                  /\ r.error = NoError
                  /\ r.nextState # nextState
                  /\ ConsumedBy(r.nextState, r.context) > 0 )
    /\ [][ (pc = "loop" /\ context.nextIndex < Len(context.input)) =>
               /\ context'.nextIndex >= context.nextIndex
               /\ context'.input = context.input
               /\ pc' = IF status' = "open" THEN "loop" ELSE "idle"
         ]_vars
    /\ [][ (pc = "loop" /\ pc' = "idle" /\ status' = "open") =>
               /\ context.nextIndex >= Len(context.input)
               /\ Len(units') = Len(units) + 1
         ]_vars

\* The whitespace consumer has just handed over to inDirectiveState without
\* consuming the character it looked at.
C25_Witness ==
    /\ pc = "loop"
    /\ status = "open"
    /\ nextState = "inDirectiveState"
    /\ context.stateBuffer = <<>>
    /\ context.nextIndex = 0
    /\ context.input = <<"a">>

-----------------------------------------------------------------------------
(* One token for the start and the end *)

\* At most this many pieces make up a text of this section.
MaxSamePieces == 4

\* The template of the test "Replaces with single-character start and end
\* tokens", and one whose token has two characters.
SameRawTemplates ==
    { <<"!", " ", "@", " ", "!">>,
      <<"<", "!", " ", "@", " ", "<", "!">> }

SameTemplates ==
    { fromString(raw).template : raw \in { r \in SameRawTemplates : fromString(r).ok } }

\* { a: "1", b: { a: "2" } }
SameData ==
    Mapping(  (<<"a">> :> Leaf(<<"1">>))
           @@ (<<"b">> :> Mapping(<<"a">> :> Leaf(<<"2">>))))

\* The token, two paths with a leaf, whitespace, a key the data lacks (and
\* text outside a directive), the first character of the longer token, and
\* a whole directive.
SamePieces(tpl) ==
    { tpl.start, <<"a">>, <<"b", "@", "a">>, <<" ">>, <<"x">>, <<"<">>,
      tpl.start \o <<"a">> \o tpl.end }

RECURSIVE SameTextsOf(_, _)
SameTextsOf(tpl, n) ==
    IF n = 0 THEN { <<>> }
    ELSE LET shorter == SameTextsOf(tpl, n - 1) IN
         shorter \cup { t \o p : t \in shorter, p \in SamePieces(tpl) }

InitSame ==
    /\ template \in SameTemplates
    /\ swapData = SameData
    /\ text \in SameTextsOf(template, MaxSamePieces)
    /\ pos = 0
    /\ nextState = "lookingForDirectiveState"
    /\ context = NewContext
    /\ emitted = <<>>
    /\ status = "open"
    /\ error = NoError
    /\ rpath = <<>>
    /\ rsep = <<>>
    /\ rresult = NotCalled
    /\ NoSteps /\ NoParser /\ NoStreams /\ NoFile

NextSame ==
    \/ \E size \in 1..(Len(text) - pos) : TransformChunk(size)
    \/ EndOfInput

SpecSame == InitSame /\ [][NextSame]_vars

\* The error message names this path and the walk's failure.
IsErrorOf(err, path, separator, data) ==
    LET segments == Split(path, separator)
        walk == WalkFrom(data, segments, 1)
    IN  /\ walk.kind = "missing" => IsUnknownKey(err, segments[walk.at], path)
        /\ walk.kind = "blocked" => IsIndexIntoLeaf(err, path)
        /\ walk.kind = "mapping" => IsNotALeaf(err, path)
        /\ walk.kind # "leaf"

\* The occurrences of the one token in s, taken from index i on, leftmost
\* first and without overlap, in turn as opening and closing: open is the
\* index of the token that opened the directive s[i] is in (0 outside one),
\* out the text outside the directives with the values of the directives
\* closed so far.  The text between an opening and the next token, without
\* the whitespace around it, is the path; the first path without a leaf
\* ends the reading.
RECURSIVE Alternate(_, _, _, _, _, _)
Alternate(s, i, open, out, token, data) ==
    IF i > Len(s) THEN [kind |-> "read", open |-> open, out |-> out, path |-> <<>>]
    ELSE IF MatchesAt(s, token, i)
    THEN IF open = 0
         THEN Alternate(s, i + Len(token), i, out, token, data)
         ELSE LET path == Trim(SubSeq(s, open + Len(token), i - 1))
                  walk == WalkFrom(data, Split(path, template.separator), 1)
              IN  IF walk.kind = "leaf"
                  THEN Alternate(s, i + Len(token), 0, out \o walk.value,
                                 token, data)
                  ELSE [kind |-> "failed", open |-> open, out |-> out,
                        path |-> path]
    ELSE Alternate(s, i + 1, open,
                   IF open = 0 THEN Append(out, s[i]) ELSE out, token, data)

\* C26: with one token for the start and the end, the occurrences of the
\* token open and close directives in turn: the engine is outside a
\* directive exactly after an even number of them (where the output and the
\* part of a token it holds back are the text outside the directives with
\* the leaf of each path between an opening and the next token), the buffer
\* in inDirectiveState is the text after the opening token and its
\* whitespace, and an error is the one of the first such path that names no
\* leaf.
C26_SameTokenAlternates ==
    LET read == Alternate(SubSeq(text, 1, pos), 1, 0, <<>>, template.start, swapData)
        inside == SubSeq(text, read.open + Len(template.start), pos)
    IN  /\ template.end = template.start
        /\ status = "errored" =>
               /\ read.kind = "failed"
               /\ IsErrorOf(error, read.path, template.separator, swapData)
        /\ status # "errored" =>
               /\ read.kind = "read"
               /\ (read.open = 0) <=> (nextState = "lookingForDirectiveState")
               /\ nextState = "lookingForDirectiveState" =>
                      emitted \o context.stateBuffer = read.out
               /\ nextState # "lookingForDirectiveState" => emitted = read.out
               /\ nextState = "inDirectiveState" =>
                      /\ context.stateBuffer = TrimStart(inside)
                      /\ context.stateBuffer # <<>>
               /\ nextState = "whitespaceConsumerState" =>
                      TrimStart(inside) = <<>>

-----------------------------------------------------------------------------
(* Streams that fail *)

\* At most this many pieces make up a text of this section.
MaxFailPieces == 3

\* Directives with a leaf, with a key the data lacks, with a mapping at the
\* end of the path and with a key under a leaf; text that passes through; the
\* first character of the start token.
FailPieces(tpl) ==
    { tpl.start \o <<"a">> \o tpl.end,
      tpl.start \o <<"x">> \o tpl.end,
      tpl.start \o <<"b">> \o tpl.end,
      tpl.start \o <<"a">> \o tpl.separator \o <<"a">> \o tpl.end,
      <<"x">>,
      <<Head(tpl.start)>> }

RECURSIVE FailTextsOf(_, _)
FailTextsOf(tpl, n) ==
    IF n = 0 THEN { <<>> }
    ELSE LET shorter == FailTextsOf(tpl, n - 1) IN
         shorter \cup { t \o p : t \in shorter, p \in FailPieces(tpl) }

InitFail ==
    /\ template \in Templates
    /\ swapData = SameData
    /\ text \in FailTextsOf(template, MaxFailPieces)
    /\ pos = 0
    /\ nextState = "lookingForDirectiveState"
    /\ context = NewContext
    /\ emitted = <<>>
    /\ status = "open"
    /\ error = NoError
    /\ rpath = <<>>
    /\ rsep = <<>>
    /\ rresult = NotCalled
    /\ NoSteps /\ NoParser /\ NoStreams /\ NoFile

NextFail ==
    \/ \E size \in 1..(Len(text) - pos) : TransformChunk(size)
    \/ EndOfInput

SpecFail == InitFail /\ [][NextFail]_vars

\* The text handed over before the chunk that is the input.
BeforeChunk == SubSeq(text, 1, pos - Len(context.input))

\* C27: the call of _transform in which a state function throws emits
\* nothing, also not the output the chunk had gathered before the throw, and
\* nothing is emitted after it: the output of the failed stream is the output
\* of the text handed over before the failing chunk.
C27_FailingChunkEmitsNothing ==
    /\ [][ status' = "errored" => emitted' = emitted ]_vars
    /\ [](status = "errored" =>
              /\ WholeRun(BeforeChunk).error = NoError
              /\ emitted = WholeOutput(BeforeChunk))

\* The failing chunk had resolved a directive before it met the one that
\* fails; a chunk before it was emitted.
C27_Witness ==
    /\ status = "errored"
    /\ emitted = <<"x">>
    /\ context.output = <<"1">>

\* The first directive of the text, in text order, whose path names no leaf.
Failing ==
    { span \in DirectiveSpans(text, 1, template, swapData) :
          span.walk.kind \notin {"leaf", "unterminated"} }

\* C28: for texts with directives shorter than the limit, the stream fails
\* exactly when the text holds a directive whose path names no leaf, with
\* the error of the first such directive in text order and its path in the
\* message, which is the error of the text handed over as one chunk,
\* whatever the chunking.
C28_ErrorFromTextAlone ==
    /\ status = "errored" =>
           /\ error = WholeRun(text).error
           /\ \E span \in Failing :
                  IsErrorOf(error, span.path, template.separator, swapData)
    /\ status = "ended" =>
           /\ WholeRun(text).error = NoError
           /\ Failing = {}

-----------------------------------------------------------------------------
(* The callback of _final *)

\* The streams and the copy go on by themselves: #temporaryWritable writes
\* what is pending and emits "finish" once it was ended, and copyFile settles
\* one way or the other.  Writing, ending and destroying are up to the user
\* of the stream.
SpecFileFair ==
    /\ SpecFile
    /\ WF_vars(TemporaryWrite)
    /\ WF_vars(WriteCallback)
    /\ WF_vars(TemporaryFinish)
    /\ WF_vars(CopyWrites \/ CopySucceeds \/ CopyFails)

\* The callback of _final was called: the only call is in the handler of
\* the promise of copyFile being fulfilled.
FinalCallbackCalled == copy = "done"

\* C29: once _final was called (it ends #temporaryWritable), its callback is
\* called in the end, whether the copy succeeds or fails.
C29_FinalCallsBack == temporaryWritable.ended ~> FinalCallbackCalled

=============================================================================
